---- MODULE Spec2Model ----
(***************************************************************************)
(* Session / priority queue / outbox state machine of                      *)
(* gemini_chat_backend.py, served by Flask's threaded development server:  *)
(* every HTTP request runs in a thread of its own, and the threads         *)
(* interleave between Python statements.                                   *)
(*                                                                         *)
(* A text is a sequence of tokens (strings).  The tokens are the           *)
(* substrings the code searches for or splits on (the section marker, a    *)
(* heading prefix, a line break, a colon, a blank, the two labels, the     *)
(* help keywords, digits) and opaque words.                                *)
(***************************************************************************)
EXTENDS Integers, Sequences, FiniteSets, TLC

VARIABLES
    chat_sessions,  \* app.chat_sessions: the dict session id -> session dict
    pc,             \* per request thread: the statement it is about to run
    req,            \* per request thread: the request's data and the handler's locals
    http,           \* the response the last step sent (NoResponse: none)
    clock,          \* number of events and messages created so far (their identity)
    nreq,           \* number of requests still to come (bounds the model)
    delivered,      \* history: per session, the messages polls have returned, in order
    last,           \* history: the operation that ended last, the outbox it
                    \* found and the messages it appended to the outbox
    popLog,         \* history: the events dequeued, in order, each with the
                    \* events it left in the queue
    llmLog,         \* history: the ids of the events the drain called the LLM for
    mongo           \* ai_backend's stores: per session id, the snapshots
                    \* collection (oldest first) and the Node session document

vars == <<chat_sessions, pc, req, http, clock, nreq, delivered, last, popLog,
         llmLog, mongo>>

----------------------------------------------------------------------------
(* Bounds of the model *)

NumThreads == 2
MaxRequests == 2
MaxCalls == 3
MaxEnqueues == 3

Threads == 1..NumThreads
SessionIds == {"s1", "s2"}

\* Python's None, where a string (resp. an integer) is expected
None == "None"
Absent == -1

----------------------------------------------------------------------------
(* Texts *)

MARKER == "### Interview Snapshot"
HEADING == "### "
NL == "\n"
COLON == ":"
BLANK == " "

Digits == {"0", "1", "2", "3", "4", "5", "6", "7", "8", "9"}

DigitValue(d) ==
    CASE d = "0" -> 0 [] d = "1" -> 1 [] d = "2" -> 2 [] d = "3" -> 3
      [] d = "4" -> 4 [] d = "5" -> 5 [] d = "6" -> 6 [] d = "7" -> 7
      [] d = "8" -> 8 [] d = "9" -> 9

\* str.lower() of a token
Lower(tok) ==
    CASE tok = "Help tier" -> "help tier"
      [] tok = "HELP TIER" -> "help tier"
      [] tok = "Struggle score" -> "struggle score"
      [] tok = "Direction" -> "direction"
      [] tok = "Guide" -> "guide"
      [] tok = "GUIDE" -> "guide"
      [] tok = "Nudge" -> "nudge"
      [] tok = "NUDGE" -> "nudge"
      [] tok = "Self" -> "self"
      [] tok = "Sufficient" -> "sufficient"
      [] tok = "No hint" -> "no hint"
      [] tok = "Coach" -> "coach"
      [] OTHER -> tok

\* sub in tok, for the substrings the code looks for
TokContains(tok, sub) ==
    \/ tok = sub
    \/ sub = HEADING /\ tok = MARKER
    \/ sub = "self" /\ tok = "self-sufficient"
    \/ sub = "sufficient" /\ tok = "self-sufficient"

\* sub in text
Contains(text, sub) == \E i \in 1..Len(text) : TokContains(text[i], sub)

\* text.find(sub): the first position holding sub, 0 when there is none
\* (Python's -1)
Find(text, sub) ==
    IF Contains(text, sub)
    THEN CHOOSE i \in 1..Len(text) :
            /\ TokContains(text[i], sub)
            /\ \A j \in 1..(i - 1) : ~TokContains(text[j], sub)
    ELSE 0

LowerText(text) == [i \in 1..Len(text) |-> Lower(text[i])]

RECURSIVE LStrip(_)
LStrip(text) ==
    IF text # <<>> /\ Head(text) = BLANK THEN LStrip(Tail(text)) ELSE text

RECURSIVE RStrip(_)
RStrip(text) ==
    IF text # <<>> /\ text[Len(text)] = BLANK
    THEN RStrip(SubSeq(text, 1, Len(text) - 1))
    ELSE text

\* str.strip()
Strip(text) == RStrip(LStrip(text))

\* str.splitlines()
RECURSIVE SplitLines(_)
SplitLines(text) ==
    IF text = <<>> THEN <<>>
    ELSE LET n == Find(text, NL)
         IN  IF n = 0 THEN <<text>>
             ELSE <<SubSeq(text, 1, n - 1)>>
                      \o SplitLines(SubSeq(text, n + 1, Len(text)))

\* l.split(":", 1)[1] for a line holding a colon
AfterFirstColon(l) == SubSeq(l, Find(l, COLON) + 1, Len(l))

\* "".join(ch for ch in right if ch.isdigit())
DigitsOf(text) == SelectSeq(text, LAMBDA tok : tok \in Digits)

\* int(digits)
RECURSIVE IntOf(_)
IntOf(digits) ==
    IF digits = <<>> THEN 0
    ELSE 10 * IntOf(SubSeq(digits, 1, Len(digits) - 1))
            + DigitValue(digits[Len(digits)])

Max(a, b) == IF a >= b THEN a ELSE b
\* min written where max was meant
MinAsMax(a, b) == IF a >= b THEN a ELSE b

Min(a, b) == IF a <= b THEN a ELSE b

\* A mapping that looks for "guide" before "direction"
MapGuideFirst(label) ==
    LET norm == LowerText(Strip(label))
    IN  IF norm = <<>> THEN 0
        ELSE IF Contains(norm, "guide") THEN 2
        ELSE IF Contains(norm, "direction") THEN 3
        ELSE IF Contains(norm, "nudge") THEN 1
        ELSE 0

_map_help_label_to_level(label) ==
    LET norm == LowerText(Strip(label))
    IN  IF norm = <<>> THEN 0
        ELSE IF Contains(norm, "direction") THEN 3
        ELSE IF Contains(norm, "guide") THEN 2
        ELSE IF Contains(norm, "nudge") THEN 1
        ELSE IF \/ Contains(norm, "self")
                \/ Contains(norm, "sufficient")
                \/ Contains(norm, "no hint") THEN 0
        ELSE 0

\* A pass that takes the digits of the whole line
ScanLineWholeLine(acc, line) ==
    LET l == Strip(line)
        low == LowerText(l)
        h == IF Contains(low, "help tier") /\ Contains(l, COLON)
             THEN _map_help_label_to_level(Strip(AfterFirstColon(l)))
             ELSE acc[1]
        digits == DigitsOf(l)
        s == IF /\ Contains(low, "struggle score")
                /\ Contains(l, COLON)
                /\ digits # <<>>
             THEN Max(0, Min(100, IntOf(digits)))
             ELSE acc[2]
    IN  IF l = <<>> THEN acc ELSE <<h, s>>

\* One pass of the loop over the section's lines: acc is
\* <<help_level_val, struggle_val>> so far.
ScanLine(acc, line) ==
    LET l == Strip(line)
        low == LowerText(l)
        h == IF Contains(low, "help tier") /\ Contains(l, COLON)
             THEN _map_help_label_to_level(Strip(AfterFirstColon(l)))
             ELSE acc[1]
        digits == DigitsOf(AfterFirstColon(l))
        s == IF /\ Contains(low, "struggle score")
                /\ Contains(l, COLON)
                /\ digits # <<>>
             THEN Max(0, Min(100, IntOf(digits)))
             ELSE acc[2]
    IN  IF l = <<>> THEN acc ELSE <<h, s>>

RECURSIVE ScanLines(_, _)
ScanLines(acc, lines) ==
    IF lines = <<>> THEN acc
    ELSE ScanLines(ScanLine(acc, Head(lines)), Tail(lines))

\* An extractor that scans the whole text, marker or not
ExtractWithoutMarker(text) == ScanLines(<<Absent, Absent>>, SplitLines(text))

\* An extractor whose section runs to the end of the text, heading or not
ExtractToEndOfText(text) ==
    IF text = <<>> THEN <<Absent, Absent>>
    ELSE LET idx == Find(text, MARKER)
         IN  IF idx = 0 THEN <<Absent, Absent>>
             ELSE ScanLines(<<Absent, Absent>>,
                            SplitLines(SubSeq(text, idx + 1, Len(text))))

\* Returns <<help_level, struggle_score>>, either of them Absent (None) when
\* not found.
_extract_memory_from_snapshot_section(text) ==
    IF text = <<>> THEN <<Absent, Absent>>
    ELSE LET idx == Find(text, MARKER)
         IN  IF idx = 0 THEN <<Absent, Absent>>
             ELSE LET tail == SubSeq(text, idx + 1, Len(text))
                      end_idx == Find(tail, HEADING)
                      section == IF end_idx = 0 THEN tail
                                 ELSE SubSeq(tail, 1, end_idx - 1)
                  IN  ScanLines(<<Absent, Absent>>, SplitLines(section))

----------------------------------------------------------------------------
(* Sessions, events, messages *)

EventTypes == {"USER_SPEECH", "CODE_RUN", "SLM", "OTHER"}

\* The 'code' field of a request body: absent, a string, or a value that is
\* no string (JSON allows a number or a list there).
CodeKinds == {None, "str", "nonstr"}

Questions == {"q1", "q2"}

HistoryLimit == 10

\* PRIORITY.get(etype, 0)
PRIORITY(etype) ==
    CASE etype = "USER_SPEECH" -> 3
      [] etype = "CODE_RUN" -> 2
      [] etype = "SLM" -> 1
      [] OTHER -> 0

NewSession ==
    [messages |-> <<>>, question_json |-> None, help_level |-> 0,
     struggle_score |-> 0, queue |-> <<>>, processing |-> FALSE,
     outbox |-> <<>>]

\* The session dict _get_session returns, in the sessions map it leaves.
_get_session(sessions, sid) ==
    IF sid \in DOMAIN sessions
    THEN sessions
    ELSE sessions @@ (sid :> NewSession)

\* if incoming and incoming != session.get('question_json')
StoreQuestion(sess, qj) ==
    IF qj # None /\ qj # sess.question_json
    THEN [sess EXCEPT !.question_json = qj]
    ELSE sess

MaxPriority(q) ==
    CHOOSE p \in {q[i].priority : i \in 1..Len(q)} :
        \A i \in 1..Len(q) : q[i].priority <= p

\* A sort by priority that is not stable: equal priorities come out reversed.
RECURSIVE SortUnstable(_)
SortUnstable(q) ==
    IF q = <<>> THEN <<>>
    ELSE LET m == MaxPriority(q)
             same == SelectSeq(q, LAMBDA e : e.priority = m)
         IN  [i \in 1..Len(same) |-> same[Len(same) + 1 - i]]
                \o SortUnstable(SelectSeq(q, LAMBDA e : e.priority # m))

\* list.sort(key=lambda e: e['priority'], reverse=True): a stable sort, equal
\* priorities keep their order.
RECURSIVE SortByPriority(_)
SortByPriority(q) ==
    IF q = <<>> THEN <<>>
    ELSE LET m == MaxPriority(q)
         IN  SelectSeq(q, LAMBDA e : e.priority = m)
                \o SortByPriority(SelectSeq(q, LAMBDA e : e.priority # m))

\* session['messages'][-10:]
LastMessages(msgs) ==
    IF Len(msgs) <= HistoryLimit THEN msgs
    ELSE SubSeq(msgs, Len(msgs) - HistoryLimit + 1, Len(msgs))

MsgIds(msgs) == [i \in 1..Len(msgs) |-> msgs[i].id]

\* The parts of the prompt that depend on the session.
PromptOf(sess) ==
    [help_level |-> sess.help_level,
     struggle_score |-> sess.struggle_score,
     history |-> MsgIds(LastMessages(sess.messages))]

NoPrompt == [help_level |-> 0, struggle_score |-> 0, history |-> <<>>]
NoEvent == [priority |-> 0, type |-> None, code |-> None, id |-> 0]

\* An update that is made only when both fields were parsed
ApplyBothOrNone(sess, parsed) ==
    IF parsed[1] # Absent /\ parsed[2] # Absent
    THEN [sess EXCEPT !.help_level = Max(0, Min(3, parsed[1])),
                      !.struggle_score = Max(0, Min(100, parsed[2]))]
    ELSE sess

\* max(0, min(3, int(parsed_help))) and max(0, min(100, int(parsed_struggle)))
\* for the fields that were parsed
ApplyMemory(sess, parsed) ==
    [sess EXCEPT
        !.help_level = IF parsed[1] # Absent THEN Max(0, Min(3, parsed[1])) ELSE @,
        !.struggle_score = IF parsed[2] # Absent THEN Max(0, Min(100, parsed[2])) ELSE @]

\* What the LLM may answer.
Responses ==
    { <<"Hello">>,
      <<MARKER, NL, "Help tier", COLON, BLANK, "Guide", NL,
        "Struggle score", COLON, BLANK, "5", "7", NL, HEADING, "Next Steps">>,
      <<MARKER, NL, "Help tier", COLON, BLANK, "Coach", NL,
        "Struggle score", COLON, BLANK, "3", "4", "/", "1", "0", "0">> }

\* str(e) of the exceptions llm.invoke may raise.
ExceptionTexts == { <<"timeout">> }

\* f"(internal error processing {event.get('type')}) {e}"
ErrorText(etype, e) == <<"(internal error processing ", etype, ") ">> \o e

\* The words a help-tier label is made of.
LabelWords ==
    {"Direction", "Guide", "NUDGE", "self-sufficient", "No hint", "Coach"}

MaxLabelWords == 2

\* The sequences of at most n words
RECURSIVE WordSeqs(_)
WordSeqs(n) ==
    IF n = 0 THEN {<<>>}
    ELSE WordSeqs(n - 1)
            \cup {Append(ws, w) : ws \in {x \in WordSeqs(n - 1) : Len(x) = n - 1},
                                  w \in LabelWords}

\* What may stand right of the colon of a struggle-score line.
ScoreTexts ==
    { <<>>, <<BLANK, "n/a">>, <<BLANK, "0">>, <<BLANK, "5", "7">>,
      <<BLANK, "1", "0", "0">>, <<BLANK, "3", "4", "/", "1", "0", "0">>,
      <<BLANK, "5", COLON, "7">>, <<BLANK, "high", BLANK, "9">> }

\* No such line in the text
NoLine == <<"(no line)">>

\* The parts of a response text: its first line (the section marker, some
\* other line, or none), whether its lines are bulleted, the words of its help-tier label (or NoLine),
\* whether the help-tier line has its colon, what follows the colon of the
\* struggle-score line (or NoLine), whether a digit stands before that colon,
\* and whether a further heading follows.
SnapshotInputs ==
    [head : {"marker", "intro", "none"}, bullet : BOOLEAN,
     help : WordSeqs(MaxLabelWords) \cup {NoLine}, colon : BOOLEAN,
     score : ScoreTexts \cup {NoLine}, digit : BOOLEAN, next : BOOLEAN]

NoInput ==
    [head |-> "none", bullet |-> FALSE, help |-> NoLine, colon |-> FALSE,
     score |-> NoLine, digit |-> FALSE, next |-> FALSE]

\* The words of a label, blanks between them
RECURSIVE LabelText(_)
LabelText(ws) ==
    IF Len(ws) <= 1 THEN ws
    ELSE <<Head(ws), BLANK>> \o LabelText(Tail(ws))

\* The response text made of the parts in
SnapshotText(in) ==
    LET bullet == IF in.bullet THEN <<"- ">> ELSE <<>>
        helpLine ==
            IF in.help = NoLine THEN <<>>
            ELSE bullet \o <<"Help tier">>
                    \o (IF in.colon THEN <<COLON, BLANK>> ELSE <<BLANK>>)
                    \o LabelText(in.help) \o <<NL>>
        scoreLine ==
            IF in.score = NoLine THEN <<>>
            ELSE bullet \o <<"Struggle score">>
                    \o (IF in.digit THEN <<BLANK, "2">> ELSE <<>>)
                    \o <<COLON>> \o in.score \o <<NL>>
        headLine ==
            CASE in.head = "marker" -> <<MARKER, NL>>
              [] in.head = "intro" -> <<"Here is my feedback.", NL>>
              [] OTHER -> <<>>
    IN  headLine
            \o helpLine \o scoreLine
            \o (IF in.next THEN <<HEADING, "Next Steps">> ELSE <<>>)

\* A message dict; id stands for its identity (and its timestamp), event is
\* the id of the queued event it answers (0: none, a /chat turn).
Message(role, text, id, ev) ==
    [role |-> role, content |-> text, id |-> id, event |-> ev]

\* before and appended are history: the session's outbox when the operation
\* began, and the messages the operation has appended to the outbox.
\* input is history as well: the parts the pending response text was made of,
\* where the text is one made by SnapshotText; and so is enqueued: the id of
\* the event the request has appended to the queue (0: none yet).
\* sid names the session dict the handler works on; session_id is the id the
\* request gave, where the handler looks it up again.
IdleReq ==
    [op |-> None, sid |-> None, session_id |-> None, type |-> None,
     code |-> None, qj |-> None,
     event |-> NoEvent, prompt |-> NoPrompt, text |-> <<>>, outbox |-> <<>>,
     raised |-> FALSE, before |-> <<>>, appended |-> <<>>, input |-> NoInput,
     enqueued |-> 0]

NoResponse ==
    [op |-> None, sid |-> None, status |-> 0, count |-> 0, messages |-> <<>>]

\* jsonify(...), status: the response of endpoint op (of a direct call: 200
\* when it returns, 500 when it raises)
Respond(op, sid, status, msgs) ==
    [op |-> op, sid |-> sid, status |-> status, count |-> Len(msgs),
     messages |-> msgs]

\* The stores before ai_backend has written anything
NoMongo == [snapshots |-> <<>>, sessions |-> <<>>]

Ended(op, sid, before, appended) ==
    [op |-> op, sid |-> sid, before |-> before, appended |-> appended]

\* The process after start-up: no session, no request running.
Start(requests) ==
    /\ chat_sessions = <<>>
    /\ pc = [t \in Threads |-> "idle"]
    /\ req = [t \in Threads |-> IdleReq]
    /\ http = NoResponse
    /\ clock = 0
    /\ nreq = requests
    /\ delivered = [s \in SessionIds |-> <<>>]
    /\ last = Ended(None, None, <<>>, <<>>)
    /\ popLog = <<>>
    /\ llmLog = <<>>
    /\ mongo = NoMongo

Init == Start(MaxRequests)

\* The thread's session
Sess(t) == chat_sessions[req[t].sid]

\* The handler returns with status (and msgs)
Return(t, status, msgs) ==
    /\ pc' = [pc EXCEPT ![t] = "idle"]
    /\ req' = [req EXCEPT ![t] = IdleReq]
    /\ http' = Respond(req[t].op, req[t].sid, status, msgs)
    /\ last' = Ended(req[t].op, req[t].sid, req[t].before, req[t].appended)

\* The handler rejects the request at once
Reject(op, sid, status) ==
    /\ http' = Respond(op, sid, status, <<>>)
    /\ last' = Ended(op, sid, <<>>, <<>>)

\* The handler goes on with the statement at label
Goto(t, label) ==
    /\ pc' = [pc EXCEPT ![t] = label]
    /\ http' = NoResponse
    /\ last' = last

\* The server hands a request to its first free thread.
Free(t) ==
    /\ pc[t] = "idle"
    /\ \A u \in 1..(t - 1) : pc[u] # "idle"

----------------------------------------------------------------------------
(* POST /events/enqueue: enqueue_event, _enqueue_event, _process_queue *)

\* enqueue_event up to the call of _enqueue_event: the session is looked up
\* (and created), the question stored.
EnqueueBegin(t, sid, ty, code, qj) ==
    /\ Free(t)
    /\ nreq > 0
    /\ LET sessions == _get_session(chat_sessions, sid)
       IN  chat_sessions' =
               [sessions EXCEPT ![sid] = StoreQuestion(sessions[sid], qj)]
    /\ req' = [req EXCEPT ![t] =
                  [IdleReq EXCEPT !.op = "enqueue", !.sid = sid, !.type = ty,
                                  !.code = code, !.qj = qj,
                                  !.before = chat_sessions'[sid].outbox]]
    /\ nreq' = nreq - 1
    /\ Goto(t, "enqueue")
    /\ UNCHANGED <<clock, delivered, popLog, llmLog, mongo>>

\* The event _enqueue_event builds from the request body.
NewEvent(ty, code, id) ==
    LET etype == IF ty = None THEN "SLM" ELSE ty
    IN  [priority |-> PRIORITY(etype), type |-> etype, code |-> code, id |-> id]

\* An enqueue that drops the event while a drain is running
EnqueueDroppedWhileBusy(t) ==
    /\ pc[t] = "enqueue"
    /\ chat_sessions' =
           IF Sess(t).processing THEN chat_sessions
           ELSE [chat_sessions EXCEPT ![req[t].sid].queue =
                    Append(@, NewEvent(req[t].type, req[t].code, clock + 1))]
    /\ clock' = clock + 1
    /\ IF req[t].op = "enqueue"
       THEN /\ Goto(t, "check_processing")
            /\ req' = [req EXCEPT ![t].enqueued = clock + 1]
       ELSE Return(t, 200, <<>>)
    /\ UNCHANGED <<nreq, delivered, popLog, llmLog, mongo>>

\* _enqueue_event(session, data); enqueue_event goes on to _process_queue
_enqueue_event(t) ==
    /\ pc[t] = "enqueue"
    /\ chat_sessions' = [chat_sessions EXCEPT ![req[t].sid].queue =
                            Append(@, NewEvent(req[t].type, req[t].code, clock + 1))]
    /\ clock' = clock + 1
    /\ IF req[t].op = "enqueue"
       THEN /\ Goto(t, "check_processing")
            /\ req' = [req EXCEPT ![t].enqueued = clock + 1]
       ELSE Return(t, 200, <<>>)
    /\ UNCHANGED <<nreq, delivered, popLog, llmLog, mongo>>

\* _process_queue: if session['processing']: return
ProcessCheck(t) ==
    /\ pc[t] = "check_processing"
    /\ IF Sess(t).processing
       THEN Return(t, 200, <<>>)
       ELSE Goto(t, "set_processing") /\ UNCHANGED req
    /\ UNCHANGED <<chat_sessions, clock, nreq, delivered, popLog, llmLog, mongo>>

\* session['processing'] = True
ProcessSet(t) ==
    /\ pc[t] = "set_processing"
    /\ chat_sessions' = [chat_sessions EXCEPT ![req[t].sid].processing = TRUE]
    /\ Goto(t, "dequeue")
    /\ UNCHANGED <<req, clock, nreq, delivered, popLog, llmLog, mongo>>

\* A loop that also ends once it has appended a message
DequeueCheckOnce(t) ==
    /\ pc[t] = "dequeue"
    /\ Goto(t, IF Sess(t).queue = <<>> \/ req[t].appended # <<>>
               THEN "finally" ELSE "sort")
    /\ UNCHANGED <<chat_sessions, req, clock, nreq, delivered, popLog, llmLog, mongo>>

\* _dequeue_highest_priority: if not session['queue']: return None, and the
\* loop's break on it
DequeueCheck(t) ==
    /\ pc[t] = "dequeue"
    /\ Goto(t, IF Sess(t).queue = <<>> THEN "finally" ELSE "sort")
    /\ UNCHANGED <<chat_sessions, req, clock, nreq, delivered, popLog, llmLog, mongo>>

\* session['queue'].sort(key=..., reverse=True)
DequeueSort(t) ==
    /\ pc[t] = "sort"
    /\ chat_sessions' = [chat_sessions EXCEPT ![req[t].sid].queue = SortByPriority(@)]
    /\ Goto(t, "pop")
    /\ UNCHANGED <<req, clock, nreq, delivered, popLog, llmLog, mongo>>

\* return session['queue'].pop(0), then the prompt is built from the session.
\* pop raises IndexError on an empty list, and "\n".join(parts) raises
\* TypeError when the event's code is no string: either leaves the loop
\* through the finally clause.
DequeuePop(t) ==
    /\ pc[t] = "pop"
    /\ IF Sess(t).queue = <<>>
       THEN /\ req' = [req EXCEPT ![t].raised = TRUE]
            /\ Goto(t, "finally")
            /\ UNCHANGED <<chat_sessions, popLog>>
       ELSE LET event == Head(Sess(t).queue)
            IN  /\ chat_sessions' =
                       [chat_sessions EXCEPT ![req[t].sid].queue = Tail(@)]
                /\ popLog' = Append(popLog, [event |-> event,
                                             pending |-> Tail(Sess(t).queue)])
                /\ IF event.code = "nonstr"
                   THEN /\ req' = [req EXCEPT ![t].event = event,
                                              ![t].raised = TRUE]
                        /\ Goto(t, "finally")
                   ELSE /\ req' = [req EXCEPT ![t].event = event,
                                              ![t].prompt = PromptOf(Sess(t))]
                        /\ Goto(t, "invoke")
    /\ UNCHANGED <<clock, nreq, delivered, llmLog, mongo>>

\* The response text is parsed and the memory updated from it.
Memorize(t, text) ==
    /\ chat_sessions' =
           [chat_sessions EXCEPT ![req[t].sid] =
               ApplyMemory(@, _extract_memory_from_snapshot_section(text))]
    /\ req' = [req EXCEPT ![t].text = text]

\* response_text_raw = llm.invoke(prompt) returns text; memory update
LLMReturn(t, text) ==
    /\ pc[t] = "invoke"
    /\ Memorize(t, text)
    /\ llmLog' = Append(llmLog, req[t].event.id)
    /\ Goto(t, "append")
    /\ UNCHANGED <<clock, nreq, delivered, popLog, mongo>>

\* llm.invoke(prompt) raises e: except Exception as e: response_text_raw = ...;
\* memory update
LLMFail(t, e) ==
    /\ pc[t] = "invoke"
    /\ Memorize(t, ErrorText(req[t].event.type, e))
    /\ llmLog' = Append(llmLog, req[t].event.id)
    /\ Goto(t, "append")
    /\ UNCHANGED <<clock, nreq, delivered, popLog, mongo>>

\* _append_assistant_message(session, response_text_raw): the message is
\* appended to messages and to the outbox (the two appends taken as one step)
_append_assistant_message(t) ==
    LET msg == Message("assistant", req[t].text, clock + 1, req[t].event.id)
    IN  /\ pc[t] = "append"
        /\ chat_sessions' =
               [chat_sessions EXCEPT ![req[t].sid].messages = Append(@, msg),
                                     ![req[t].sid].outbox = Append(@, msg)]
        /\ req' = [req EXCEPT ![t].appended = Append(@, msg)]
        /\ clock' = clock + 1
        /\ Goto(t, "dequeue")
        /\ UNCHANGED <<nreq, delivered, popLog, llmLog, mongo>>

\* A _process_queue without the finally clause: the flag is cleared after the
\* loop, which an exception skips
ProcessClearsAfterLoop(t) ==
    /\ pc[t] = "finally"
    /\ chat_sessions' = [chat_sessions EXCEPT ![req[t].sid].processing =
                                                  IF req[t].raised THEN @ ELSE FALSE]
    /\ Return(t, IF req[t].raised THEN 500 ELSE 200, <<>>)
    /\ UNCHANGED <<clock, nreq, delivered, popLog, llmLog, mongo>>

\* finally: session['processing'] = False; then enqueue_event returns, 500
\* when an exception left the loop
ProcessFinally(t) ==
    /\ pc[t] = "finally"
    /\ chat_sessions' = [chat_sessions EXCEPT ![req[t].sid].processing = FALSE]
    /\ Return(t, IF req[t].raised THEN 500 ELSE 200, <<>>)
    /\ UNCHANGED <<clock, nreq, delivered, popLog, llmLog, mongo>>

----------------------------------------------------------------------------
(* POST /chat *)

\* The message checked after the session is looked up (and created)
ChatRejectAfterSession(t) ==
    /\ Free(t)
    /\ nreq > 0
    /\ nreq' = nreq - 1
    /\ chat_sessions' = _get_session(chat_sessions, "s1")
    /\ Reject("chat", None, 400)
    /\ UNCHANGED <<pc, req, clock, delivered, popLog, llmLog, mongo>>

\* 'message' missing from the body, or blank: 400
ChatReject(t) ==
    /\ Free(t)
    /\ nreq > 0
    /\ nreq' = nreq - 1
    /\ Reject("chat", None, 400)
    /\ UNCHANGED <<chat_sessions, pc, req, clock, delivered, popLog, llmLog, mongo>>

\* chat up to the call of the LLM: the session is looked up (and created), the
\* user message appended, the question stored, the prompt built.
\* (data.get('code') or '').strip() raises AttributeError when the code is no
\* string: the handler answers 500, the user message already appended.
ChatBegin(t, sid, code, qj) ==
    LET sessions == _get_session(chat_sessions, sid)
        user == Message("user", <<"user message">>, clock + 1, 0)
        appended == [sessions[sid] EXCEPT !.messages = Append(@, user)]
        stored == StoreQuestion(appended, qj)
    IN  /\ Free(t)
        /\ nreq > 0
        /\ nreq' = nreq - 1
        /\ clock' = clock + 1
        /\ IF code = "nonstr"
           THEN /\ chat_sessions' = [sessions EXCEPT ![sid] = appended]
                /\ Reject("chat", sid, 500)
                /\ UNCHANGED <<pc, req>>
           ELSE /\ chat_sessions' = [sessions EXCEPT ![sid] = stored]
                /\ req' = [req EXCEPT ![t] =
                              [IdleReq EXCEPT !.op = "chat", !.sid = sid,
                                              !.code = code, !.qj = qj,
                                              !.prompt = PromptOf(stored),
                                              !.before = stored.outbox]]
                /\ Goto(t, "chat_invoke")
        /\ UNCHANGED <<delivered, popLog, llmLog, mongo>>

\* response_text_raw = llm.invoke(full_prompt) returns text; memory update
ChatLLMReturn(t, text) ==
    /\ pc[t] = "chat_invoke"
    /\ Memorize(t, text)
    /\ Goto(t, "chat_append")
    /\ UNCHANGED <<clock, nreq, delivered, popLog, llmLog, mongo>>

\* llm.invoke raises: the handler's except answers 500
ChatLLMFail(t) ==
    /\ pc[t] = "chat_invoke"
    /\ Return(t, 500, <<>>)
    /\ UNCHANGED <<chat_sessions, clock, nreq, delivered, popLog, llmLog, mongo>>

\* Append assistant response (to messages only), answer 200
ChatAppend(t) ==
    LET msg == Message("assistant", req[t].text, clock + 1, 0)
    IN  /\ pc[t] = "chat_append"
        /\ chat_sessions' = [chat_sessions EXCEPT ![req[t].sid].messages =
                                Append(@, msg)]
        /\ clock' = clock + 1
        /\ Return(t, 200, <<msg>>)
        /\ UNCHANGED <<nreq, delivered, popLog, llmLog, mongo>>

----------------------------------------------------------------------------
(* GET /chat/events/poll *)

\* sessionId missing: 400
PollReject(t) ==
    /\ Free(t)
    /\ nreq > 0
    /\ nreq' = nreq - 1
    /\ Reject("poll", None, 400)
    /\ UNCHANGED <<chat_sessions, pc, req, clock, delivered, popLog, llmLog, mongo>>

\* A poll that copies the outbox after having emptied it
PollCopyNothing(t, sid) ==
    LET sessions == _get_session(chat_sessions, sid)
    IN  /\ Free(t)
        /\ nreq > 0
        /\ nreq' = nreq - 1
        /\ chat_sessions' = sessions
        /\ req' = [req EXCEPT ![t] =
                      [IdleReq EXCEPT !.op = "poll", !.sid = sid,
                                      !.before = sessions[sid].outbox]]
        /\ Goto(t, "poll_reset")
        /\ UNCHANGED <<clock, delivered, popLog, llmLog, mongo>>

\* session = _get_session(session_id); outbox = list(session.get('outbox') or [])
PollCopy(t, sid) ==
    LET sessions == _get_session(chat_sessions, sid)
    IN  /\ Free(t)
        /\ nreq > 0
        /\ nreq' = nreq - 1
        /\ chat_sessions' = sessions
        /\ req' = [req EXCEPT ![t] =
                      [IdleReq EXCEPT !.op = "poll", !.sid = sid,
                                      !.outbox = sessions[sid].outbox,
                                      !.before = sessions[sid].outbox]]
        /\ Goto(t, "poll_reset")
        /\ UNCHANGED <<clock, delivered, popLog, llmLog, mongo>>

\* A poll that returns the copy and leaves the outbox as it is
PollKeepsOutbox(t) ==
    /\ pc[t] = "poll_reset"
    /\ delivered' = [delivered EXCEPT ![req[t].sid] = @ \o req[t].outbox]
    /\ Return(t, 200, req[t].outbox)
    /\ UNCHANGED <<chat_sessions, clock, nreq, popLog, llmLog, mongo>>

\* session['outbox'] = []; the copy is returned
PollReset(t) ==
    /\ pc[t] = "poll_reset"
    /\ chat_sessions' = [chat_sessions EXCEPT ![req[t].sid].outbox = <<>>]
    /\ delivered' = [delivered EXCEPT ![req[t].sid] = @ \o req[t].outbox]
    /\ Return(t, 200, req[t].outbox)
    /\ UNCHANGED <<clock, nreq, popLog, llmLog, mongo>>

----------------------------------------------------------------------------
(* The threaded server: any thread runs its next statement *)

\* A caller other than the route (a test, a background trigger) calls
\* _enqueue_event(_get_session(sid), event) and does not drain.
CallEnqueueEvent(t, sid, ty, code) ==
    /\ Free(t)
    /\ nreq > 0
    /\ nreq' = nreq - 1
    /\ chat_sessions' = _get_session(chat_sessions, sid)
    /\ req' = [req EXCEPT ![t] =
                  [IdleReq EXCEPT !.op = "_enqueue_event", !.sid = sid,
                                  !.type = ty, !.code = code,
                                  !.before = chat_sessions'[sid].outbox]]
    /\ Goto(t, "enqueue")
    /\ UNCHANGED <<clock, delivered, popLog, llmLog, mongo>>

\* Such a caller calls _process_queue(sid): session = _get_session(session_id)
CallProcessQueue(t, sid) ==
    /\ Free(t)
    /\ nreq > 0
    /\ nreq' = nreq - 1
    /\ chat_sessions' = _get_session(chat_sessions, sid)
    /\ req' = [req EXCEPT ![t] =
                  [IdleReq EXCEPT !.op = "_process_queue", !.sid = sid,
                                  !.before = chat_sessions'[sid].outbox]]
    /\ Goto(t, "check_processing")
    /\ UNCHANGED <<clock, delivered, popLog, llmLog, mongo>>

\* The request bodies tried: <<type, code, questionJson>>
EnqueueBodies ==
    { <<"USER_SPEECH", "str", "q1">>,
      <<"CODE_RUN", None, None>>,
      <<"SLM", None, "q2">>,
      <<"OTHER", "nonstr", None>> }

ChatBodies == { <<"str", "q1">>, <<"nonstr", None>> }

\* The statements of the three handlers, for requests naming a session of S
\* POST /events/enqueue for the sessions S, with a body of B, the LLM
\* answering one of R or raising
Enqueue(t, S, B, R) ==
    \/ \E sid \in S, b \in B : EnqueueBegin(t, sid, b[1], b[2], b[3])
    \/ _enqueue_event(t)
    \/ ProcessCheck(t)
    \/ ProcessSet(t)
    \/ DequeueCheck(t)
    \/ DequeueSort(t)
    \/ DequeuePop(t)
    \/ \E text \in R : LLMReturn(t, text)
    \/ \E e \in ExceptionTexts : LLMFail(t, e)
    \/ _append_assistant_message(t)
    \/ ProcessFinally(t)

Chat(t, S) ==
    \/ ChatReject(t)
    \/ \E sid \in S, b \in ChatBodies : ChatBegin(t, sid, b[1], b[2])
    \/ \E text \in Responses : ChatLLMReturn(t, text)
    \/ ChatLLMFail(t)
    \/ ChatAppend(t)

Poll(t, S) ==
    \/ PollReject(t)
    \/ \E sid \in S : PollCopy(t, sid)
    \/ PollReset(t)

Calls(t, S) ==
    \/ \E sid \in S, b \in EnqueueBodies : CallEnqueueEvent(t, sid, b[1], b[2])
    \/ \E sid \in S : CallProcessQueue(t, sid)

OneSession == {"s1"}

Next == \E t \in Threads : Enqueue(t, OneSession, EnqueueBodies, Responses) \/ Chat(t, OneSession) \/ Poll(t, OneSession)

Spec == Init /\ [][Next]_vars

----------------------------------------------------------------------------
(* Operations one at a time: each request, and each direct call of         *)
(* _enqueue_event or _process_queue, ends before the next one starts.      *)

InitSeq == Start(MaxCalls)

NextSeq ==
    \/ Enqueue(1, OneSession, EnqueueBodies, Responses)
    \/ Chat(1, OneSession)
    \/ Poll(1, OneSession)
    \/ Calls(1, OneSession)

SpecSeq == InitSeq /\ [][NextSeq]_vars

\* The threaded server under enqueue requests only: concurrent
\* POST /events/enqueue for one session.
InitEnq == Start(MaxEnqueues)

QueueBodies == {<<"USER_SPEECH", "str", "q1">>, <<"SLM", None, None>>}

NextEnq ==
    \E t \in Threads : Enqueue(t, OneSession, QueueBodies, {<<"Hello">>})

SpecEnq == InitEnq /\ [][NextEnq]_vars

\* The memory extractor on its own: a /chat call whose LLM is about to
\* return a text made by SnapshotText, for a session whose memory is one the
\* earlier responses may have left.
Memories == {<<0, 0>>, <<2, 57>>}

InitExtract ==
    \E in \in SnapshotInputs, mem \in Memories :
        LET user == Message("user", <<"user message">>, 1, 0)
            sess == [NewSession EXCEPT !.messages = <<user>>,
                                       !.help_level = mem[1],
                                       !.struggle_score = mem[2]]
        IN  /\ chat_sessions = ("s1" :> sess)
            /\ pc = [t \in Threads |-> IF t = 1 THEN "chat_invoke" ELSE "idle"]
            /\ req = [t \in Threads |->
                         IF t = 1
                         THEN [IdleReq EXCEPT !.op = "chat", !.sid = "s1",
                                              !.code = "str",
                                              !.prompt = PromptOf(sess),
                                              !.text = SnapshotText(in),
                                              !.input = in]
                         ELSE IdleReq]
            /\ http = NoResponse
            /\ clock = 1
            /\ nreq = 0
            /\ delivered = [s \in SessionIds |-> <<>>]
            /\ last = Ended(None, None, <<>>, <<>>)
            /\ popLog = <<>>
            /\ llmLog = <<>>
            /\ mongo = NoMongo

NextExtract ==
    \/ ChatLLMReturn(1, req[1].text)
    \/ ChatAppend(1)

SpecExtract == InitExtract /\ [][NextExtract]_vars

----------------------------------------------------------------------------
\* Properties of the adaptive memory

Sessions == DOMAIN chat_sessions

Quiescent == \A t \in Threads : pc[t] = "idle"

AnyMessage(P(_)) ==
    \E s \in Sessions : \E i \in 1..Len(chat_sessions[s].messages) :
        P(chat_sessions[s].messages[i])

\* C1: in every reachable state, every session's help_level is an integer
\* from 0 to 3 and its struggle_score is an integer from 0 to 100.
C1_MemoryInRange ==
    \A s \in Sessions :
        /\ chat_sessions[s].help_level \in 0..3
        /\ chat_sessions[s].struggle_score \in 0..100

\* A response whose score line reads above 100 has been taken in, and the
\* score stands at 100.
C1_Witness ==
    \E s \in Sessions :
        /\ chat_sessions[s].struggle_score = 100
        /\ AnyMessage(LAMBDA m : /\ m.role = "assistant"
                                  /\ IntOf(DigitsOf(m.content)) > 100)

----------------------------------------------------------------------------
\* Properties of the event queue and its drain

\* The statements of _process_queue between setting and clearing the flag.
DrainLabels == {"dequeue", "sort", "pop", "invoke", "append"}

Draining(s) == {t \in Threads : pc[t] \in DrainLabels /\ req[t].sid = s}

SeqSet(q) == {q[i] : i \in 1..Len(q)}

Dequeued == {d.event : d \in SeqSet(popLog)}

Queued == UNION {SeqSet(chat_sessions[s].queue) : s \in Sessions}

\* Every event enqueued so far carries a code that is a string or no code.
StringCodes == \A e \in Dequeued \cup Queued : e.code # "nonstr"

LLMCalls(e) == Cardinality({i \in 1..Len(llmLog) : llmLog[i] = e.id})

Answers(e) ==
    Cardinality(UNION {{i \in 1..Len(chat_sessions[s].messages) :
                            chat_sessions[s].messages[i].event = e.id}
                       : s \in Sessions})

\* C2: at most one drain loop is active for a session at any time, however
\* concurrent enqueue requests for the session interleave.
C2_SingleDrain == \A s \in SessionIds : Cardinality(Draining(s)) <= 1

\* C3: once the concurrent enqueue requests have all returned, no event is
\* left in the queue and every event has had exactly one LLM call and exactly
\* one assistant message; no further enqueue is needed for that.
C3_AllProcessedOnce ==
    (Quiescent /\ StringCodes) =>
        /\ \A s \in Sessions : chat_sessions[s].queue = <<>>
        /\ \A e \in Dequeued : LLMCalls(e) = 1 /\ Answers(e) = 1

\* C4: every dequeue removes an event whose priority is the highest of the
\* events pending at that moment: none it leaves in the queue ranks higher.
C4_MaxPriorityFirst ==
    \A d \in SeqSet(popLog) :
        \A e \in SeqSet(d.pending) : e.priority <= d.event.priority

\* C5: among pending events of equal priority the one enqueued first is
\* dequeued first, at every dequeue of a drain (ids grow in enqueue order).
C5_FifoWithinPriority ==
    \A d \in SeqSet(popLog) :
        \A e \in SeqSet(d.pending) :
            e.priority = d.event.priority => d.event.id < e.id

\* A dequeue that followed a re-sort chose between two pending events of
\* equal priority.
C5_Witness ==
    \E i \in 2..Len(popLog) :
        \E e \in SeqSet(popLog[i].pending) :
            /\ e.priority = popLog[i].event.priority
            /\ popLog[i - 1].event.id > popLog[i].event.id

\* The step of thread t that runs _enqueue_event.
EnqueueStep(t) == pc[t] = "enqueue" /\ pc'[t] # "enqueue"

\* C6: _enqueue_event succeeds whatever the state of the session (a drain
\* running or not, the queue empty or not); it adds exactly one event, built
\* from the request, at the end of the queue, and changes nothing else of that
\* session or of any other.
C6_EnqueueAddsOne ==
    /\ [](\A t \in Threads : pc[t] = "enqueue" => ENABLED _enqueue_event(t))
    /\ [][\A t \in Threads : EnqueueStep(t) =>
            LET s == req[t].sid
                q == chat_sessions[s].queue
                after == chat_sessions'[s].queue
            IN  /\ Len(after) = Len(q) + 1
                /\ SubSeq(after, 1, Len(q)) = q
                /\ after[Len(after)].type =
                       (IF req[t].type = None THEN "SLM" ELSE req[t].type)
                /\ after[Len(after)].priority = PRIORITY(after[Len(after)].type)
                /\ after[Len(after)].code = req[t].code
                /\ chat_sessions' = [chat_sessions EXCEPT ![s].queue = after]
       ]_vars

\* An event has been added behind a pending one while a drain was running
\* (after the drain had produced a message, before it cleared the flag).
C6_Witness ==
    \E t \in Threads :
        /\ pc[t] = "check_processing"
        /\ Sess(t).processing
        /\ Len(Sess(t).queue) >= 2
        /\ \E i \in 1..Len(Sess(t).messages) :
              Sess(t).messages[i].id < Sess(t).queue[Len(Sess(t).queue)].id

\* The step of thread t that takes in the text of a response.
ResponseStep(t) ==
    /\ pc[t] \in {"invoke", "chat_invoke"}
    /\ pc'[t] \in {"append", "chat_append"}

HelpKeywords == {"direction", "guide", "nudge", "self", "sufficient", "no hint"}

\* C7: a drain step or a /chat call whose response text holds no help-tier
\* keyword leaves help_level as it was, and one whose text holds no digit
\* leaves struggle_score as it was: a field that cannot be parsed into a value
\* is never reset.
C7_UnparsedKeepsMemory ==
    [][\A t \in Threads : ResponseStep(t) =>
          LET s == req[t].sid
              text == req'[t].text
          IN  /\ (\A k \in HelpKeywords : ~Contains(LowerText(text), k)) =>
                     chat_sessions'[s].help_level = chat_sessions[s].help_level
              /\ DigitsOf(text) = <<>> =>
                     chat_sessions'[s].struggle_score = chat_sessions[s].struggle_score
      ]_vars

IsErrorMessage(m) ==
    /\ m.role = "assistant"
    /\ Len(m.content) >= 1
    /\ m.content[1] = "(internal error processing "

InOutbox(e) ==
    Cardinality(UNION {{i \in 1..Len(delivered[s] \o chat_sessions[s].outbox) :
                            (delivered[s] \o chat_sessions[s].outbox)[i].event = e.id}
                       : s \in Sessions})

\* C8: when an LLM call has failed in a drain, the failure is answered by
\* one error message for its event in messages and in the outbox, and the
\* drain still processes every queued event: once the requests have returned,
\* the queue is empty, the flag is False and every event has its one message.
C8_FailureDoesNotStopDrain ==
    (Quiescent /\ StringCodes /\ AnyMessage(IsErrorMessage)) =>
        /\ \A s \in Sessions :
              /\ chat_sessions[s].queue = <<>>
              /\ ~chat_sessions[s].processing
        /\ \A e \in Dequeued : Answers(e) = 1 /\ InOutbox(e) = 1

----------------------------------------------------------------------------
\* Properties of the outbox and its poll, one operation at a time

\* The messages a drain appended, in the order it appended them.
DrainMessages(s) == SelectSeq(chat_sessions[s].messages, LAMBDA m : m.event # 0)

\* C9: the messages the polls of a session have returned, in order, followed
\* by the messages still in its outbox, are the messages its drains produced,
\* each once and in the order appended: no message is returned twice, none is
\* lost, none is out of order.
C9_EachMessageOnce ==
    \A s \in Sessions :
        delivered[s] \o chat_sessions[s].outbox = DrainMessages(s)

\* A poll has returned nothing because an earlier poll had returned every
\* message.
C9_Witness ==
    /\ http.op = "poll"
    /\ http.status = 200
    /\ http.messages = <<>>
    /\ delivered[http.sid] # <<>>

DrainOps == {"enqueue", "_process_queue"}

\* The step of thread t that ends a poll.
PollStep(t) == pc[t] = "poll_reset" /\ pc'[t] = "idle"

\* What every poll does: it returns the outbox with its length as count
\* (nothing and 0 when the outbox is empty) and leaves the outbox empty.
PollEmpties(t) ==
    LET s == req[t].sid
    IN  /\ http'.messages = chat_sessions[s].outbox
        /\ http'.count = Len(chat_sessions[s].outbox)
        /\ chat_sessions'[s].outbox = <<>>

\* C10 as stated: a poll returns the outbox and empties it, and a poll right
\* after a drain returns exactly the messages that drain appended.
C10_PollReturnsLastDrain ==
    [][\A t \in Threads : PollStep(t) =>
          /\ PollEmpties(t)
          /\ (last.op \in DrainOps /\ last.sid = req[t].sid) =>
                 http'.messages = last.appended
      ]_vars

\* C10, amended: a poll returns the outbox and empties it, and a poll right
\* after a drain returns the messages that were in the outbox when the drain
\* began followed by the messages the drain appended (exactly the latter when
\* the outbox was empty then).
C10_PollReturnsSincePoll ==
    [][\A t \in Threads : PollStep(t) =>
          /\ PollEmpties(t)
          /\ (last.op \in DrainOps /\ last.sid = req[t].sid) =>
                 http'.messages = last.before \o last.appended
      ]_vars

\* A poll has returned the messages of two drains.
C10_Witness ==
    /\ http.op = "poll"
    /\ Len(http.messages) = 2
    /\ http.messages[1].id < http.messages[2].event

----------------------------------------------------------------------------
\* Properties of the poll under a concurrent drain

\* The copies of the outbox of s held by the polls in progress.
PollCopies(s) ==
    UNION {SeqSet(req[t].outbox) :
              t \in {u \in Threads : pc[u] = "poll_reset" /\ req[u].sid = s}}

\* C11: no message a drain appended is dropped by a poll running at the same
\* time: every such message has been returned by a poll, is in the copy a
\* poll in progress is about to return, or is still in the outbox.
C11_NoMessageDropped ==
    \A s \in Sessions :
        SeqSet(DrainMessages(s)) \subseteq
            SeqSet(delivered[s]) \cup PollCopies(s)
                \cup SeqSet(chat_sessions[s].outbox)

----------------------------------------------------------------------------
\* Properties of the memory extractor

\* Thread t has parsed the response text made of the parts req[t].input and
\* updated the memory from it.
Extracted(t) ==
    /\ pc[t] = "chat_append"
    /\ req[t].text = SnapshotText(req[t].input)

\* What the extractor returns for the text of thread t.
Parsed(t) == _extract_memory_from_snapshot_section(req[t].text)

\* The memory before the response (as the prompt showed it) and after it.
MemoryBefore(t) == <<req[t].prompt.help_level, req[t].prompt.struggle_score>>

MemoryAfter(t) == <<Sess(t).help_level, Sess(t).struggle_score>>

\* '### Interview Snapshot', '- Help tier: Guide', '- Struggle score: 57',
\* '### Next Steps'
ExampleInput ==
    [head |-> "marker", bullet |-> TRUE, help |-> <<"Guide">>, colon |-> TRUE,
     score |-> <<BLANK, "5", "7">>, digit |-> FALSE, next |-> TRUE]

\* C12: the extractor returns (2, 57) for the example text, and (absent,
\* absent) for every text without the section marker, the empty text
\* included, in which case the memory is left as it was.
C12_ExampleAndNoMarker ==
    \A t \in Threads : Extracted(t) =>
        /\ req[t].input = ExampleInput =>
               Parsed(t) = <<2, 57>> /\ MemoryAfter(t) = <<2, 57>>
        /\ req[t].input.head # "marker" =>
               Parsed(t) = <<Absent, Absent>> /\ MemoryAfter(t) = MemoryBefore(t)

\* The example text has been parsed for a session whose memory was (0, 0).
C12_Witness ==
    \E t \in Threads :
        /\ Extracted(t)
        /\ req[t].input = ExampleInput
        /\ MemoryBefore(t) = <<0, 0>>

\* The help keywords each label word contains, whatever its case.
WordKeywords(w) ==
    CASE w = "Direction" -> {"direction"}
      [] w = "Guide" -> {"guide"}
      [] w = "NUDGE" -> {"nudge"}
      [] w = "self-sufficient" -> {"self", "sufficient"}
      [] w = "No hint" -> {"no hint"}
      [] OTHER -> {}

LabelKeywords(ws) == UNION {WordKeywords(ws[i]) : i \in 1..Len(ws)}

\* The level a keyword stands for
KeywordLevel(k) ==
    CASE k = "direction" -> 3
      [] k = "guide" -> 2
      [] k = "nudge" -> 1
      [] OTHER -> 0

\* The level of the highest-precedence keyword of a label that has one
TopLevel(ws) ==
    CHOOSE n \in {KeywordLevel(k) : k \in LabelKeywords(ws)} :
        \A k \in LabelKeywords(ws) : KeywordLevel(k) <= n

\* The text of thread t has the section, with a well-formed help-tier line.
HasHelpLine(t) ==
    /\ req[t].input.head = "marker"
    /\ req[t].input.help # NoLine
    /\ req[t].input.colon

\* C13: when the label of the section's help-tier line holds none of the
\* keywords, or is empty, the extracted help level is absent and the
\* session's help_level keeps its value.
C13_UnrecognisedIsAbsent ==
    \A t \in Threads :
        (Extracted(t) /\ HasHelpLine(t) /\ LabelKeywords(req[t].input.help) = {}) =>
            /\ Parsed(t)[1] = Absent
            /\ Sess(t).help_level = req[t].prompt.help_level

\* C14: the label of the help-tier line is mapped, whatever the case of its
\* words, to the level of the highest-precedence keyword it contains:
\* direction (3) over guide (2) over nudge (1) over self, sufficient and
\* 'no hint' (0).
C14_KeywordPrecedence ==
    \A t \in Threads :
        (Extracted(t) /\ HasHelpLine(t) /\ LabelKeywords(req[t].input.help) # {}) =>
            /\ Parsed(t)[1] = TopLevel(req[t].input.help)
            /\ Sess(t).help_level = TopLevel(req[t].input.help)

\* A label holding "guide" before "direction" has been mapped to 3.
C14_Witness ==
    \E t \in Threads :
        /\ Extracted(t)
        /\ HasHelpLine(t)
        /\ req[t].input.help = <<"Guide", "Direction">>
        /\ Sess(t).help_level = 3

\* The number the digits among the tokens ts read as, left to right, after n
RECURSIVE DecimalValue(_, _)
DecimalValue(ts, n) ==
    IF ts = <<>> THEN n
    ELSE DecimalValue(Tail(ts),
                      IF Head(ts) \in Digits THEN 10 * n + DigitValue(Head(ts))
                      ELSE n)

HasDigit(ts) == \E i \in 1..Len(ts) : ts[i] \in Digits

\* The text of thread t has the section, with a struggle-score line.
HasScoreLine(t) ==
    /\ req[t].input.head = "marker"
    /\ req[t].input.score # NoLine

\* The score the struggle-score line of thread t should give
ExpectedScore(t) ==
    LET n == DecimalValue(req[t].input.score, 0)
    IN  IF n > 100 THEN 100 ELSE n

\* C15: the extracted struggle score is the integer the digits after the
\* first colon of the struggle-score line read as, clamped to 0..100 (34/100
\* gives 100); when there is no digit there it is absent.
C15_ScoreFromDigits ==
    \A t \in Threads : (Extracted(t) /\ HasScoreLine(t)) =>
        IF HasDigit(req[t].input.score)
        THEN /\ Parsed(t)[2] = ExpectedScore(t)
             /\ Sess(t).struggle_score = ExpectedScore(t)
        ELSE /\ Parsed(t)[2] = Absent
             /\ Sess(t).struggle_score = req[t].prompt.struggle_score

\* 'Struggle score 2: 34/100' has given 100 to a session whose score was 57.
C15_Witness ==
    \E t \in Threads :
        /\ Extracted(t)
        /\ HasScoreLine(t)
        /\ req[t].input.digit
        /\ req[t].input.score = <<BLANK, "3", "4", "/", "1", "0", "0">>
        /\ req[t].prompt.struggle_score = 57
        /\ Sess(t).struggle_score = 100

\* The help-tier line of thread t is there but malformed (no colon) or its
\* label is not recognised.
BadHelpLine(t) ==
    /\ req[t].input.head = "marker"
    /\ req[t].input.help # NoLine
    /\ ~req[t].input.colon \/ LabelKeywords(req[t].input.help) = {}

\* C16: the two fields are recovered independently: with a malformed or
\* unrecognised help-tier line the struggle score of the section is still
\* extracted and applied, and with a struggle-score line without digits the
\* help tier is still extracted and applied.
C16_FieldsIndependent ==
    \A t \in Threads : Extracted(t) =>
        /\ (BadHelpLine(t) /\ HasScoreLine(t) /\ HasDigit(req[t].input.score)) =>
               /\ Parsed(t)[2] = ExpectedScore(t)
               /\ Sess(t).struggle_score = ExpectedScore(t)
        /\ (HasScoreLine(t) /\ ~HasDigit(req[t].input.score) /\ HasHelpLine(t)
                /\ LabelKeywords(req[t].input.help) # {}) =>
               /\ Parsed(t)[1] = TopLevel(req[t].input.help)
               /\ Sess(t).help_level = TopLevel(req[t].input.help)

\* A help tier was applied from a section whose score line has no digit.
C16_Witness ==
    \E t \in Threads :
        /\ Extracted(t)
        /\ HasHelpLine(t)
        /\ req[t].input.help = <<"Direction">>
        /\ req[t].input.score = <<BLANK, "n/a">>
        /\ MemoryBefore(t) = <<2, 57>>
        /\ MemoryAfter(t) = <<3, 57>>

----------------------------------------------------------------------------
(* ai_backend: POST /llm/generate in patch mode                            *)
(*                                                                          *)
(* A code text is a sequence of characters.  A patch text is the sequence  *)
(* of its lines (the text split on line breaks); a line is its first       *)
(* character (sign), the rest of it as a sequence of URL-quoted characters *)
(* (data) and, for a line "@@ -a,la +b,lb @@", the four numbers (coords,   *)
(* Absent for a length that is not written, NoCoords for a line that does  *)
(* not have that form).                                                     *)

Chars == {"a", NL}

MaxCodeLen == 2
MaxPatchLines == 2

\* The sequences over S of length at most n
RECURSIVE SeqsUpTo(_, _)
SeqsUpTo(S, n) ==
    IF n = 0 THEN {<<>>}
    ELSE LET R == SeqsUpTo(S, n - 1)
         IN  R \cup {Append(r, x) : r \in {q \in R : Len(q) = n - 1}, x \in S}

Codes == SeqsUpTo(Chars, MaxCodeLen)

NoCoords == <<Absent, Absent, Absent, Absent>>

\* urllib quote / unquote of one character: a line break travels as %0A
quote(c) == IF c = NL THEN "%0A" ELSE c
unquote(tok) == IF tok = "%0A" THEN NL ELSE tok

PatchLine(sign, data, coords) == [sign |-> sign, data |-> data, coords |-> coords]

\* diff_match_patch.patch_fromText, the header of a hunk: start and length
\* as the library reads them from "@@ -a,la +b,lb @@"
HunkStart(a, la) == IF la = 0 THEN a ELSE a - 1
HunkLength(a, la) == IF la = Absent THEN 1 ELSE la

NewPatch(c) ==
    [diffs |-> <<>>,
     start1 |-> HunkStart(c[1], c[2]), length1 |-> HunkLength(c[1], c[2]),
     start2 |-> HunkStart(c[3], c[4]), length2 |-> HunkLength(c[3], c[4])]

Raised == [raised |-> TRUE, patches |-> <<>>]

\* diff_match_patch.patch_fromText(patch_text): the hunks of the patch, or
\* ValueError for a line that is neither a hunk header where one is due nor
\* a diff line ("+", "-", " ") or a blank line within a hunk
RECURSIVE ParseLines(_, _)
ParseLines(text, patches) ==
    IF text = <<>> THEN [raised |-> FALSE, patches |-> patches]
    ELSE LET l == text[1]
             n == Len(patches)
         IN  IF l.sign = "@"
             THEN IF l.coords = NoCoords THEN Raised
                  ELSE ParseLines(Tail(text), Append(patches, NewPatch(l.coords)))
             ELSE IF n = 0 THEN Raised
             ELSE IF l.sign \in {"+", "-", " "}
             THEN ParseLines(Tail(text),
                      [patches EXCEPT ![n].diffs =
                          Append(@, <<l.sign, [i \in 1..Len(l.data) |-> unquote(l.data[i])]>>)])
             ELSE IF l.sign = "" THEN ParseLines(Tail(text), patches)
             ELSE Raised

patch_fromText(text) == ParseLines(text, <<>>)

\* diff_text1 / diff_text2: the text a hunk expects and the text it leaves
RECURSIVE DiffText(_, _)
DiffText(diffs, signs) ==
    IF diffs = <<>> THEN <<>>
    ELSE (IF diffs[1][1] \in signs THEN diffs[1][2] ELSE <<>>)
         \o DiffText(Tail(diffs), signs)

diff_text1(diffs) == DiffText(diffs, {" ", "-"})
diff_text2(diffs) == DiffText(diffs, {" ", "+"})

\* match_main(text, pattern, loc): where pattern is found, Absent when it
\* is not.  Only the exact match at the expected place is modelled; the
\* library's search for an approximate match nearby is left out.
match_main(text, pattern, loc) ==
    LET at == Max(0, Min(loc, Len(text)))
    IN  IF text = pattern THEN 0
        ELSE IF text = <<>> THEN Absent
        ELSE IF at + Len(pattern) <= Len(text)
                /\ SubSeq(text, at + 1, at + Len(pattern)) = pattern THEN at
        ELSE Absent

\* diff_match_patch.patch_apply(patches, text): text with every hunk that
\* is found replaced by what it leaves, and one flag per hunk
RECURSIVE ApplyHunks(_, _, _, _)
ApplyHunks(patches, text, delta, results) ==
    IF patches = <<>> THEN <<text, results>>
    ELSE LET patch == patches[1]
             expected_loc == patch.start2 + delta
             text1 == diff_text1(patch.diffs)
             start_loc == match_main(text, text1, expected_loc)
         IN  IF start_loc = Absent
             THEN ApplyHunks(Tail(patches), text,
                             delta - (patch.length2 - patch.length1),
                             Append(results, FALSE))
             ELSE ApplyHunks(Tail(patches),
                             SubSeq(text, 1, start_loc) \o diff_text2(patch.diffs)
                                 \o SubSeq(text, start_loc + Len(text1) + 1, Len(text)),
                             start_loc - expected_loc,
                             Append(results, TRUE))

patch_apply(patches, text) == ApplyHunks(patches, text, 0, <<>>)

\* _apply_patch returning the text it was given instead of the patched one
ApplyPatchReturnsPrevious(previous_code, patch_text) ==
    [raised |-> patch_fromText(patch_text).raised, code |-> previous_code]

\* _apply_patch(previous_code, patch_text): the library is always there
\* (its import at line 15 succeeded), so the fallback of line 116 is never
\* taken; an exception of patch_fromText is not caught
_apply_patch(previous_code, patch_text) ==
    LET parsed == patch_fromText(patch_text)
    IN  IF parsed.raised THEN [raised |-> TRUE, code |-> previous_code]
        ELSE [raised |-> FALSE,
              code |-> patch_apply(parsed.patches, previous_code)[1]]

MaxGenerates == 2

GenerateSessions == {None, "s1"}

\* The lines a request's patch text is made of
HeaderCoords ==
    {NoCoords, <<1, Absent, 1, Absent>>, <<0, 0, 1, Absent>>,
     <<1, 2, 1, Absent>>, <<2, Absent, 2, 0>>}

PatchLines ==
    {PatchLine("@", <<>>, c) : c \in HeaderCoords}
    \cup {PatchLine(s, <<d>>, NoCoords) : s \in {"+", "-", " "}, d \in {"a", "%0A"}}
    \cup {PatchLine("", <<>>, NoCoords), PatchLine("x", <<>>, NoCoords)}

PatchTexts == SeqsUpTo(PatchLines, MaxPatchLines)

Snapshot(code) == [code |-> code]

\* A metrics dict is the sequence of its items <<key, value>> in the order
\* the dict holds them
MetricsKeys(metrics) == {metrics[i][1] : i \in 1..Len(metrics)}

\* The item of the dict with this key
MetricsItem(metrics, key) ==
    metrics[CHOOSE i \in 1..Len(metrics) : metrics[i][1] = key]

\* merged_metrics = dict(prev_metrics or {}); merged_metrics.update(metrics_patch):
\* a key of the patch takes the patch's value where it stands, a new key
\* goes to the end
MergeMetrics(prev_metrics, metrics_patch) ==
    [i \in 1..Len(prev_metrics) |->
        IF prev_metrics[i][1] \in MetricsKeys(metrics_patch)
        THEN MetricsItem(metrics_patch, prev_metrics[i][1])
        ELSE prev_metrics[i]]
    \o SelectSeq(metrics_patch, LAMBDA item : item[1] \notin MetricsKeys(prev_metrics))

\* last.get("metrics") or {} of a snapshot document (None: no document)
MetricsOf(last_doc) ==
    IF "metrics" \in DOMAIN last_doc THEN last_doc.metrics ELSE <<>>

\* snapshots.get_last_snapshot_by_session
LastSnapshot(sid) ==
    IF sid \in DOMAIN mongo.snapshots /\ mongo.snapshots[sid] # <<>>
    THEN mongo.snapshots[sid][Len(mongo.snapshots[sid])]
    ELSE Snapshot(None)

GenerateReq(sid, mode, code, patch) ==
    [op |-> "generate", sid |-> sid, mode |-> mode, code |-> code,
     patch |-> patch, prev_code |-> <<>>, prev_metrics |-> <<>>,
     metrics |-> <<>>,   \* metrics (full mode) or metrics_patch (patch mode)
     merged |-> <<>>,    \* merged_metrics
     diffed |-> <<>>]    \* history: the two texts the patch is the diff of

\* The endpoint answers
GenerateReturn(t, status) ==
    /\ pc' = [pc EXCEPT ![t] = "idle"]
    /\ req' = [req EXCEPT ![t] = IdleReq]
    /\ http' = Respond("generate", req[t].sid, status, <<>>)

\* routes/llm.py generate_endpoint: the mode, and the 400 answers
GenerateBegin(t, sid, mode, code, patch) ==
    /\ pc[t] = "idle"
    /\ nreq > 0
    /\ nreq' = nreq - 1
    /\ LET m == IF mode # None THEN mode
                ELSE IF patch # <<>> THEN "patch" ELSE "full"
       IN  IF (m = "full" /\ code = <<>>) \/ (m = "patch" /\ patch = <<>>)
           THEN /\ http' = Respond("generate", sid, 400, <<>>)
                /\ UNCHANGED <<pc, req>>
           ELSE /\ req' = [req EXCEPT ![t] = GenerateReq(sid, m, code, patch)]
                /\ pc' = [pc EXCEPT ![t] = IF m = "patch" THEN "gen_last"
                                                         ELSE "gen_llm"]
                /\ http' = NoResponse
    /\ UNCHANGED <<chat_sessions, clock, delivered, last, popLog, llmLog, mongo>>

\* generate_text_response_patch, lines 356-362: without a session the code
\* is empty and the patch is not looked at
GenerateLast(t) ==
    /\ pc[t] = "gen_last"
    /\ IF req[t].sid = None
       THEN /\ req' = [req EXCEPT ![t].code = <<>>, ![t].merged = <<>>]
            /\ pc' = [pc EXCEPT ![t] = "gen_llm"]
       ELSE LET last_doc == LastSnapshot(req[t].sid)
            IN  /\ req' = [req EXCEPT
                              ![t].prev_code =
                                  IF last_doc.code = None THEN <<>> ELSE last_doc.code,
                              ![t].prev_metrics = MetricsOf(last_doc)]
                /\ pc' = [pc EXCEPT ![t] = "gen_patch"]
    /\ http' = NoResponse
    /\ UNCHANGED <<chat_sessions, clock, nreq, delivered, last, popLog, llmLog, mongo>>

\* generate_text_response_patch, line 363: what _apply_patch raises reaches
\* the endpoint, which answers 500
GeneratePatch(t) ==
    /\ pc[t] = "gen_patch"
    /\ LET r == _apply_patch(req[t].prev_code, req[t].patch)
       IN  IF r.raised
           THEN GenerateReturn(t, 500)
           ELSE /\ req' = [req EXCEPT
                              ![t].code = r.code,
                              ![t].merged =
                                  MergeMetrics(req[t].prev_metrics, req[t].metrics)]
                /\ pc' = [pc EXCEPT ![t] = "gen_llm"]
                /\ http' = NoResponse
    /\ UNCHANGED <<chat_sessions, clock, nreq, delivered, last, popLog, llmLog, mongo>>

\* generate_text_response_full: the model answers, the snapshot is stored
GenerateLLMReturn(t) ==
    /\ pc[t] = "gen_llm"
    /\ mongo' = [mongo EXCEPT !.snapshots =
                    LET sid == req[t].sid
                        old == IF sid \in DOMAIN @ THEN @[sid] ELSE <<>>
                    IN  [s \in DOMAIN @ \cup {sid} |->
                            IF s = sid
                            THEN Append(old,
                                     [code |-> req[t].code,
                                      metrics |-> IF req[t].mode = "patch"
                                                  THEN req[t].merged
                                                  ELSE req[t].metrics])
                            ELSE @[s]]]
    /\ GenerateReturn(t, 200)
    /\ UNCHANGED <<chat_sessions, clock, nreq, delivered, last, popLog, llmLog>>

\* generate_text_response_full: the model call raises
GenerateLLMFail(t) ==
    /\ pc[t] = "gen_llm"
    /\ GenerateReturn(t, 500)
    /\ UNCHANGED <<chat_sessions, clock, nreq, delivered, last, popLog, llmLog, mongo>>

\* What a client sends: the code (full mode) or a patch (patch mode), with
\* the mode named or left out
GenerateBodies ==
    {<<m, c, <<>>>> : m \in {None, "full"}, c \in Codes}
    \cup {<<m, <<>>, p>> : m \in {None, "patch"}, p \in PatchTexts}

\* The service with at most one snapshot stored for the session, handling
\* MaxGenerates requests one after the other
InitPatch ==
    \E stored \in {<<>>} \cup {<<Snapshot(c)>> : c \in Codes} :
        /\ chat_sessions = <<>>
        /\ pc = [t \in Threads |-> "idle"]
        /\ req = [t \in Threads |-> IdleReq]
        /\ http = NoResponse
        /\ clock = 0
        /\ nreq = MaxGenerates
        /\ delivered = [s \in SessionIds |-> <<>>]
        /\ last = Ended(None, None, <<>>, <<>>)
        /\ popLog = <<>>
        /\ llmLog = <<>>
        /\ mongo = [snapshots |-> ("s1" :> stored), sessions |-> <<>>]

NextPatch ==
    \/ \E sid \in GenerateSessions, b \in GenerateBodies :
           GenerateBegin(1, sid, b[1], b[2], b[3])
    \/ GenerateLast(1)
    \/ GeneratePatch(1)
    \/ GenerateLLMReturn(1)
    \/ GenerateLLMFail(1)

SpecPatch == InitPatch /\ [][NextPatch]_vars

----------------------------------------------------------------------------
(* The client's diffing pass: the patch sent for an edit from text A to    *)
(* text B.  The texts of the model are shorter than the library's context  *)
(* margin, so the patch is one hunk that spans the whole text.             *)

\* The edit scripts from A to B, one character per diff
RECURSIVE EditScripts(_, _)
EditScripts(A, B) ==
    IF A = <<>> /\ B = <<>> THEN {<<>>}
    ELSE (IF A # <<>>
          THEN {<< <<"-", <<Head(A)>>>> >> \o s : s \in EditScripts(Tail(A), B)}
          ELSE {})
         \cup (IF B # <<>>
               THEN {<< <<"+", <<Head(B)>>>> >> \o s : s \in EditScripts(A, Tail(B))}
               ELSE {})
         \cup (IF A # <<>> /\ B # <<>> /\ Head(A) = Head(B)
               THEN {<< <<" ", <<Head(A)>>>> >> \o s :
                         s \in EditScripts(Tail(A), Tail(B))}
               ELSE {})

\* Neighbouring diffs of the same kind joined into one
RECURSIVE MergeDiffs(_)
MergeDiffs(diffs) ==
    IF Len(diffs) < 2 THEN diffs
    ELSE LET rest == MergeDiffs(Tail(diffs))
         IN  IF diffs[1][1] = rest[1][1]
             THEN << <<diffs[1][1], diffs[1][2] \o rest[1][2]>> >> \o Tail(rest)
             ELSE <<diffs[1]>> \o rest

DiffsFromTo(A, B) ==
    EditScripts(A, B) \cup {MergeDiffs(s) : s \in EditScripts(A, B)}

\* The hunks for a diff of A and B: none when nothing changes
patch_make(A, B, diffs) ==
    IF \A i \in 1..Len(diffs) : diffs[i][1] = " " THEN <<>>
    ELSE <<[diffs |-> diffs, start1 |-> 0, length1 |-> Len(A),
            start2 |-> 0, length2 |-> Len(B)]>>

\* The numbers of a hunk header as they are written
HeaderPair(start, length) ==
    IF length = 0 THEN <<start, 0>>
    ELSE IF length = 1 THEN <<start + 1, Absent>>
    ELSE <<start + 1, length>>

HunkLines(patch) ==
    <<PatchLine("@", <<>>, HeaderPair(patch.start1, patch.length1)
                            \o HeaderPair(patch.start2, patch.length2))>>
    \o [i \in 1..Len(patch.diffs) |->
           PatchLine(patch.diffs[i][1],
                     [k \in 1..Len(patch.diffs[i][2]) |-> quote(patch.diffs[i][2][k])],
                     NoCoords)]

RECURSIVE patch_toText(_)
patch_toText(patches) ==
    IF patches = <<>> THEN <<>>
    ELSE HunkLines(patches[1]) \o patch_toText(Tail(patches))

\* The session's last snapshot holds A, and the request carries the patch
\* of a diff from A to B
InitRoundTrip ==
    \E A \in Codes, B \in Codes :
        \E diffs \in DiffsFromTo(A, B) :
            /\ chat_sessions = <<>>
            /\ pc = [t \in Threads |-> IF t = 1 THEN "gen_last" ELSE "idle"]
            /\ req = [t \in Threads |->
                         IF t = 1
                         THEN [GenerateReq("s1", "patch", <<>>,
                                           patch_toText(patch_make(A, B, diffs)))
                                  EXCEPT !.diffed = <<A, B>>]
                         ELSE IdleReq]
            /\ http = NoResponse
            /\ clock = 0
            /\ nreq = 0
            /\ delivered = [s \in SessionIds |-> <<>>]
            /\ last = Ended(None, None, <<>>, <<>>)
            /\ popLog = <<>>
            /\ llmLog = <<>>
            /\ mongo = [snapshots |-> ("s1" :> <<Snapshot(A)>>), sessions |-> <<>>]

NextRoundTrip ==
    \/ GenerateLast(1)
    \/ GeneratePatch(1)
    \/ GenerateLLMReturn(1)
    \/ GenerateLLMFail(1)

SpecRoundTrip == InitRoundTrip /\ [][NextRoundTrip]_vars

----------------------------------------------------------------------------
(* The compact line history of a prompt, built from the Node session       *)
(* document by ai_backend (_build_compact_context_from_mongo) and by       *)
(* gemini_chat_backend (_fetch_line_history_compact).                      *)
(*                                                                          *)
(* lineHistory is the sequence of its items (line, arr) in the order the   *)
(* dict yields them; arr is a list of edit entries (kind "list"), None     *)
(* (kind "none") or a value of another shape (kind "other").  A section is *)
(* a sequence of strings, each a sequence of tokens.                       *)

ELLIPSIS == "..."       \* the one character U+2026

max_lines == 50

\* The strings of ss with sep between them: sep.join(ss)
RECURSIVE Join(_, _)
Join(ss, sep) ==
    IF ss = <<>> THEN <<>>
    ELSE IF Len(ss) = 1 THEN ss[1]
    ELSE ss[1] \o <<sep>> \o Join(Tail(ss), sep)

\* lst[:n] and lst[-n:]
FirstOf(lst, n) == SubSeq(lst, 1, Min(n, Len(lst)))
LastOf(lst, n) == SubSeq(lst, Len(lst) - Min(n, Len(lst)) + 1, Len(lst))

\* A content_display that cuts a content of exactly 100 characters too
ContentDisplayFrom100(content) ==
    IF Len(content) >= 100 THEN SubSeq(content, 1, 100) \o <<ELLIPSIS>> ELSE content

\* content_display of a string content
ContentDisplay(content) ==
    IF Len(content) > 100 THEN SubSeq(content, 1, 100) \o <<ELLIPSIS>> ELSE content

\* metrics_display of a metrics dict, given as its items in order
MetricsDisplay(metrics_obj) ==
    IF metrics_obj # <<>>
    THEN <<" {">>
         \o Join([i \in 1..Min(8, Len(metrics_obj)) |->
                     <<metrics_obj[i][1], "=", metrics_obj[i][2]>>], ", ")
         \o <<"}">>
    ELSE <<>>

\* One edit entry e (a dict): "[ts=...] '...'{...}"
PrettyEntry(e) ==
    <<"[ts=", ToString(e.timestamp), "] '">> \o ContentDisplay(e.content)
        \o <<"'">> \o MetricsDisplay(e.metrics)

\* lst[:3] written where lst[-3:] was meant
TailFirstThree(lst) == FirstOf(lst, 3)

\* tail = lst[-3:]
TailOf(lst) == LastOf(lst, 3)

\* "- L<line>: " and the entries of tail joined with " | "
PrettyLine(line, tail) ==
    <<"- L", ToString(line), ": ">>
        \o Join([i \in 1..Len(tail) |-> PrettyEntry(tail[i])], " | ")

\* _build_compact_context_from_mongo, lines 51-84: the loop over the items
RECURSIVE CompactLoop(_, _, _)
CompactLoop(items, sections, lines_added) ==
    IF items = <<>> THEN sections
    ELSE LET line == items[1][1]
             arr == items[1][2]
             lst == IF arr.kind = "list" THEN arr.items ELSE <<>>
         IN  IF lst = <<>> THEN CompactLoop(Tail(items), sections, lines_added)
             ELSE LET added == Append(sections, PrettyLine(line, TailOf(lst)))
                  IN  IF lines_added + 1 >= 50
                      THEN Append(added, <<"(truncated)">>)
                      ELSE CompactLoop(Tail(items), added, lines_added + 1)

\* doc.get(field) of a document that may lack the field (or be None)
Get(doc, field) == IF field \in DOMAIN doc THEN doc[field] ELSE <<>>

\* find_session_by_id(session_id): the Node session document, None (a
\* document without fields) when there is none
NodeSession(session_id) ==
    IF session_id \in DOMAIN mongo.sessions THEN mongo.sessions[session_id] ELSE <<>>

\* lines 38-42: the metrics of the last snapshot, given as their items
LatestMetrics(last_doc) ==
    LET metrics == Get(last_doc, "metrics")
    IN  IF metrics # <<>>
        THEN <<<<"LATEST METRICS:">>>>
             \o [i \in 1..Len(metrics) |-> <<"- ", metrics[i][1], ": ", metrics[i][2]>>]
        ELSE <<>>

\* out if len(out) <= max_len else out[:max_len] + ellipsis, max_len = 1000
TrimRun(out) == IF Len(out) <= 1000 THEN out ELSE SubSeq(out, 1, 1000) \o <<ELLIPSIS>>

\* lines 87-99: the last three submissions
RecentRuns(node_session, sections) ==
    LET subs == Get(node_session, "all_submissions")
        tail == LastOf(subs, 3)
    IN  IF subs # <<>>
        THEN Append(sections, <<"RECENT RUNS (last 3):">>)
             \o [i \in 1..Len(tail) |->
                    <<"- ts=", ToString(tail[i].timestamp), "\n  output:\n">>
                        \o TrimRun(Strip(tail[i].output)) \o <<"\n  error:\n">>
                        \o TrimRun(Strip(tail[i].error))]
        ELSE sections

\* _build_compact_context_from_mongo(session_id), when the lookup named by
\* failing ("snapshots", "sessions", or None for neither) raises: the one
\* try block of lines 36-102 is left at the lookup, and the sections
\* appended so far are returned
_build_compact_context_from_mongo(session_id, failing) ==
    IF session_id = None \/ failing = "snapshots" THEN <<>>
    ELSE LET metrics == LatestMetrics(LastSnapshot(session_id))
             node_session == NodeSession(session_id)
             lh == Get(node_session, "lineHistory")
         IN  IF failing = "sessions" THEN metrics
             ELSE RecentRuns(node_session,
                      IF lh # <<>>
                      THEN CompactLoop(lh, Append(metrics, <<"LINE HISTORY:">>), 0)
                      ELSE metrics)

\* _fetch_line_history_compact, lines 578-604: the loop over the items; an
\* arr that cannot be sliced raises, and the line is skipped
RECURSIVE FetchLoop(_, _, _, _)
FetchLoop(items, lines, count, limit) ==
    IF items = <<>> THEN lines
    ELSE LET line == items[1][1]
             arr == items[1][2]
         IN  IF arr.kind = "other" THEN FetchLoop(Tail(items), lines, count, limit)
             ELSE LET tail == TailOf(IF arr.kind = "list" THEN arr.items ELSE <<>>)
                      added == Append(lines, PrettyLine(line, tail))
                  IN  IF count + 1 >= limit
                      THEN Append(added, <<"(truncated)">>)
                      ELSE FetchLoop(Tail(items), added, count + 1, limit)

_fetch_line_history_compact(session_id, limit) ==
    IF session_id = None THEN <<>>
    ELSE IF session_id \in DOMAIN mongo.sessions
            /\ mongo.sessions[session_id].lineHistory # <<>>
    THEN FetchLoop(mongo.sessions[session_id].lineHistory, <<<<"LINE HISTORY:">>>>, 0, limit)
    ELSE <<>>

MaxHistoryLines == 60
MaxEntries == 4

\* A line history of n lines, numbered from 1, with k edit entries each,
\* stamped 1..k in the order recorded; the line at odd (the first or the
\* last) has an arr of the given kind: a list like the others, an empty
\* list, None, or a shape that is no list
HistoryInputs ==
    [n : 0..MaxHistoryLines, k : 0..MaxEntries, odd : {"first", "last"},
     kind : {"list", "empty", "none", "other"}]

EditEntry(i) == [timestamp |-> i, content |-> <<"x">>, metrics |-> <<>>]

LineArr(kind, k) ==
    [kind |-> IF kind = "empty" THEN "list" ELSE kind,
     items |-> IF kind = "list" THEN [i \in 1..k |-> EditEntry(i)] ELSE <<>>]

LineHistoryOf(in) ==
    [l \in 1..in.n |->
        <<l, IF l = (IF in.odd = "first" THEN 1 ELSE in.n)
             THEN LineArr(in.kind, in.k) ELSE LineArr("list", in.k)>>]

ContextReq(op, sid) ==
    [op |-> op, sid |-> sid, sections |-> <<>>,
     failed |-> None]   \* history: the lookup that raised

\* generate_text_response_full, line 172
BuildCompactContext(t) ==
    /\ pc[t] = "gen_context"
    /\ req' = [req EXCEPT ![t].sections =
                               _build_compact_context_from_mongo(req[t].sid, None)]
    /\ pc' = [pc EXCEPT ![t] = "gen_prompt"]
    /\ UNCHANGED <<chat_sessions, http, clock, nreq, delivered, last, popLog, llmLog, mongo>>

\* generate_text_response_full, line 172, when a store lookup raises
BuildCompactContextFail(t, failing) ==
    /\ pc[t] = "gen_context"
    /\ req' = [req EXCEPT ![t].sections =
                               _build_compact_context_from_mongo(req[t].sid, failing),
                          ![t].failed = failing]
    /\ pc' = [pc EXCEPT ![t] = "gen_prompt"]
    /\ UNCHANGED <<chat_sessions, http, clock, nreq, delivered, last, popLog, llmLog, mongo>>

\* chat, line 677, and _build_prompt_from_context, line 144
FetchLineHistory(t) ==
    /\ pc[t] = "chat_context"
    /\ req' = [req EXCEPT ![t].sections = _fetch_line_history_compact(req[t].sid, max_lines)]
    /\ pc' = [pc EXCEPT ![t] = "chat_prompt"]
    /\ UNCHANGED <<chat_sessions, http, clock, nreq, delivered, last, popLog, llmLog, mongo>>

\* One request of each backend is about to build its prompt for a session
\* whose Node document holds a line history
InitCompact ==
    \E in \in HistoryInputs :
        /\ chat_sessions = <<>>
        /\ pc = [t \in Threads |-> IF t = 1 THEN "gen_context"
                                   ELSE IF t = 2 THEN "chat_context" ELSE "idle"]
        /\ req = [t \in Threads |->
                     IF t = 1 THEN ContextReq("generate", "s1")
                     ELSE IF t = 2 THEN ContextReq("chat", "s1") ELSE IdleReq]
        /\ http = NoResponse
        /\ clock = 0
        /\ nreq = 0
        /\ delivered = [s \in SessionIds |-> <<>>]
        /\ last = Ended(None, None, <<>>, <<>>)
        /\ popLog = <<>>
        /\ llmLog = <<>>
        /\ mongo = [snapshots |-> <<>>,
                    sessions |-> ("s1" :> [lineHistory |-> LineHistoryOf(in)])]

NextCompact ==
    \/ BuildCompactContext(1)
    \/ FetchLineHistory(2)

SpecCompact == InitCompact /\ [][NextCompact]_vars

MaxContextLines == 2
MaxRuns == 4

Lookups == {"snapshots", "sessions"}

\* What the two stores hold for the session: the last snapshot's metrics
\* (none when there is no snapshot), n history lines of k edits, r runs
ContextInputs ==
    [snapshot : BOOLEAN, metrics : {<<>>, <<<<"activeMs", "4800">>, <<"undoCount", "0">>>>},
     n : 0..MaxContextLines, k : 0..MaxEntries, r : 0..MaxRuns]

Submission(i) == [timestamp |-> i, output |-> <<"[0, 1]", NL>>, error |-> <<>>]

\* ai_backend is about to build the context of a prompt; either store may
\* fail to answer
InitContext ==
    \E in \in ContextInputs :
        /\ chat_sessions = <<>>
        /\ pc = [t \in Threads |-> IF t = 1 THEN "gen_context" ELSE "idle"]
        /\ req = [t \in Threads |->
                     IF t = 1 THEN ContextReq("generate", "s1") ELSE IdleReq]
        /\ http = NoResponse
        /\ clock = 0
        /\ nreq = 0
        /\ delivered = [s \in SessionIds |-> <<>>]
        /\ last = Ended(None, None, <<>>, <<>>)
        /\ popLog = <<>>
        /\ llmLog = <<>>
        /\ mongo =
               [snapshots |->
                    ("s1" :> IF in.snapshot
                             THEN <<[code |-> <<"a">>, metrics |-> in.metrics]>>
                             ELSE <<>>),
                sessions |->
                    ("s1" :> [lineHistory |->
                                  LineHistoryOf([n |-> in.n, k |-> in.k,
                                                 odd |-> "first", kind |-> "list"]),
                              all_submissions |-> [i \in 1..in.r |-> Submission(i)]])]

NextContext ==
    \/ BuildCompactContext(1)
    \/ \E failing \in Lookups : BuildCompactContextFail(1, failing)

SpecContext == InitContext /\ [][NextContext]_vars

----------------------------------------------------------------------------
(* Claims about the patch mode of ai_backend *)

\* The step of thread t in which _apply_patch runs
ApplyPatchStep(t) == pc[t] = "gen_patch" /\ pc'[t] # "gen_patch"

\* The patch text cannot be parsed, or one of its hunks cannot be applied
\* to the previous code
PatchFails(previous_code, patch_text) ==
    LET parsed == patch_fromText(patch_text)
    IN  \/ parsed.raised
        \/ \E i \in 1..Len(parsed.patches) :
               ~patch_apply(parsed.patches, previous_code)[2][i]

\* C17: _apply_patch never raises to its caller: the request goes on to
\* generate_text_response_full, and when the patch text cannot be parsed or
\* a hunk cannot be applied it goes on with the previous snapshot's code.
C17_ApplyPatchFailsSafe ==
    [][\A t \in Threads :
          ApplyPatchStep(t) =>
              /\ pc'[t] = "gen_llm"
              /\ PatchFails(req[t].prev_code, req[t].patch) =>
                     req'[t].code = req[t].prev_code]_vars

\* _apply_patch has returned for a patch that is a diff of two texts
Patched(t) == pc[t] = "gen_llm" /\ req[t].diffed # <<>>

\* C18: round trip: the patch generated as the diff from A to B, applied
\* to A, yields exactly B.
C18_RoundTrip ==
    /\ \A t \in Threads : pc[t] = "gen_patch" => ~_apply_patch(req[t].prev_code, req[t].patch).raised
    /\ \A t \in Threads : Patched(t) => req[t].code = req[t].diffed[2]

\* a patch of two lines that turns "a" into a line break followed by "a"
C18_Witness ==
    \E t \in Threads :
        /\ Patched(t)
        /\ req[t].diffed = << <<"a">>, <<NL, "a">> >>
        /\ req[t].code = <<NL, "a">>
        /\ Len(req[t].patch) = 3

----------------------------------------------------------------------------
(* Claims about the compact line history *)

\* Thread t has built its line history section
Built(t) == pc[t] \in {"gen_prompt", "chat_prompt"}

LineHistory(t) == mongo.sessions[req[t].sid].lineHistory

\* Every line of the history has at least one recorded edit
AllRecorded(t) ==
    \A i \in 1..Len(LineHistory(t)) :
        LineHistory(t)[i][2].kind = "list" /\ LineHistory(t)[i][2].items # <<>>

LineEntries(sections) == SelectSeq(sections, LAMBDA s : s[1] = "- L")

HasMarker(sections) == \E i \in 1..Len(sections) : sections[i] = <<"(truncated)">>

\* C19: the section holds at most 50 line entries; a history of more than
\* 50 lines (60, say) gives exactly 50 line entries followed by the
\* "(truncated)" marker; the marker is there only when the history has more
\* than 50 lines (exactly 50 lines: 50 entries, no marker).
C19_MarkerOnlyOnOverflow ==
    \A t \in Threads :
        (Built(t) /\ AllRecorded(t)) =>
            LET n == Len(LineHistory(t))
                s == req[t].sections
            IN  /\ Len(LineEntries(s)) <= 50
                /\ n > 50 => /\ Len(LineEntries(s)) = 50
                             /\ s[Len(s)] = <<"(truncated)">>
                /\ HasMarker(s) <=> n > 50

\* The timestamps a rendered line entry shows, in order
ShownStamps(s) ==
    LET at == SelectSeq([i \in 1..Len(s) |-> i], LAMBDA i : s[i] = "[ts=")
    IN  [j \in 1..Len(at) |-> s[at[j] + 1]]

\* The arr recorded for the line a rendered entry names
RecordedFor(t, s) ==
    LET i == CHOOSE i \in 1..Len(LineHistory(t)) :
                 ToString(LineHistory(t)[i][1]) = s[2]
    IN  LineHistory(t)[i][2].items

\* The stamps of the last three edits recorded in lst, oldest first
LastThreeStamps(lst) ==
    LET m == IF Len(lst) < 3 THEN Len(lst) ELSE 3
    IN  [j \in 1..m |-> ToString(lst[Len(lst) - m + j].timestamp)]

\* C20: every rendered line entry shows only the last 3 recorded edit
\* entries of its line, in their recorded order.
C20_LastThreeInOrder ==
    \A t \in Threads :
        Built(t) =>
            LET e == LineEntries(req[t].sections)
            IN  \A p \in 1..Len(e) :
                    ShownStamps(e[p]) = LastThreeStamps(RecordedFor(t, e[p]))

\* a line with four recorded edits is rendered with the last three
C20_Witness ==
    \E t \in Threads :
        /\ Built(t)
        /\ \E p \in 1..Len(LineEntries(req[t].sections)) :
               LET s == LineEntries(req[t].sections)[p]
               IN  /\ Len(RecordedFor(t, s)) = 4
                   /\ ShownStamps(s) = <<"2", "3", "4">>

----------------------------------------------------------------------------
(* Claims about failures and rejections *)

HasSection(sections, heading) ==
    \E i \in 1..Len(sections) : sections[i] = <<heading>>

\* C21: building the compact context never raises, and a lookup that fails
\* empties only the section of its category: when the snapshot lookup for
\* LATEST METRICS fails, LINE HISTORY and RECENT RUNS are still produced
\* from the session document (and LATEST METRICS when the session lookup
\* fails).
C21_FailureEmptiesOneCategory ==
    \A t \in Threads :
        pc[t] = "gen_prompt" =>
            LET s == req[t].sections
                node == NodeSession(req[t].sid)
                stored == LastSnapshot(req[t].sid)
            IN  /\ (req[t].failed # "sessions" /\ Get(node, "lineHistory") # <<>>)
                       => HasSection(s, "LINE HISTORY:")
                /\ (req[t].failed # "sessions" /\ Get(node, "all_submissions") # <<>>)
                       => HasSection(s, "RECENT RUNS (last 3):")
                /\ (req[t].failed # "snapshots" /\ Get(stored, "metrics") # <<>>)
                       => HasSection(s, "LATEST METRICS:")

\* The step of thread t that ends a call of the LLM, returned or raised.
LLMStep(t) == pc[t] \in {"invoke", "chat_invoke"} /\ pc'[t] # pc[t]

\* C22: a failure of the LLM call is never answered by a failure response: in
\* a drain and in /chat alike, the handler goes on to append a message (the
\* response, or an error text made in its place) and no 5xx response is sent
\* at the call.
C22_LLMFailureNotSurfaced ==
    [][\A t \in Threads : LLMStep(t) =>
          /\ pc'[t] \in {"append", "chat_append"}
          /\ http'.status < 500
      ]_vars

\* C23: a request rejected for an error of the caller's input (/chat without
\* 'message' or with a blank message, a poll without sessionId) is answered
\* 400 and changes nothing of any session: none is created, no message
\* appended, no queue, outbox or memory touched.
C23_RejectionChangesNothing ==
    [][http'.status = 400 => chat_sessions' = chat_sessions]_vars

\* A request has been rejected while a session held undelivered messages.
C23_Witness ==
    /\ http.status = 400
    /\ \E s \in Sessions : chat_sessions[s].outbox # <<>>

----------------------------------------------------------------------------
(* The session table under concurrent lookups: POST /chat with             *)
(* _get_session statement by statement. The handler holds the dict it got  *)
(* and never looks the id up again, so a dict that another thread's store  *)
(* has replaced in the table lives on, held by its thread: the model keeps *)
(* it under a key of LostKeys, the keys of SessionIds being the table.     *)

LostKeys == <<"lost1", "lost2", "lost3", "lost4">>

Table == [s \in DOMAIN chat_sessions \cap SessionIds |-> chat_sessions[s]]

\* The next key for a dict that has left the table
NextLost ==
    LostKeys[1 + Cardinality(DOMAIN chat_sessions \ SessionIds)]

\* The statements of chat, enqueue_event and _process_queue that hold the
\* session dict
HoldingLabels ==
    {"chat_begin", "chat_invoke", "chat_append", "enq_begin", "enq_append",
     "check_processing", "set_processing", "finally"} \cup DrainLabels

\* chat up to sess = app.chat_sessions.get(session_id); if not sess
GetSessionLookup(t, sid, code, qj) ==
    /\ Free(t)
    /\ nreq > 0
    /\ nreq' = nreq - 1
    /\ req' = [req EXCEPT ![t] = [IdleReq EXCEPT !.op = "chat", !.sid = sid,
                                                 !.code = code, !.qj = qj]]
    /\ Goto(t, IF sid \in DOMAIN chat_sessions THEN "chat_begin"
               ELSE "store_session")
    /\ UNCHANGED <<chat_sessions, clock, delivered, popLog, llmLog, mongo>>

\* sess = {...}; app.chat_sessions[session_id] = sess; return sess. The dict
\* the table held for the id, if any by now, leaves the table, and the
\* threads holding it keep it.
GetSessionStore(t) ==
    LET sid == req[t].sid
    IN  /\ pc[t] = "store_session"
        /\ IF sid \in DOMAIN chat_sessions
           THEN /\ chat_sessions' =
                       (sid :> NewSession) @@ (NextLost :> chat_sessions[sid])
                           @@ chat_sessions
                /\ req' = [u \in Threads |->
                              IF u # t /\ pc[u] \in HoldingLabels /\ req[u].sid = sid
                              THEN [req[u] EXCEPT !.sid = NextLost]
                              ELSE req[u]]
           ELSE /\ chat_sessions' = (sid :> NewSession) @@ chat_sessions
                /\ UNCHANGED req
        /\ Goto(t, "chat_begin")
        /\ UNCHANGED <<clock, nreq, delivered, popLog, llmLog, mongo>>

\* chat from the return of _get_session to the call of the LLM: the user
\* message appended, the question stored, the prompt built (500 when the code
\* is no string, the user message already appended)
ChatAfterSession(t) ==
    LET user == Message("user", <<"user message">>, clock + 1, 0)
        appended == [Sess(t) EXCEPT !.messages = Append(@, user)]
        stored == StoreQuestion(appended, req[t].qj)
    IN  /\ pc[t] = "chat_begin"
        /\ clock' = clock + 1
        /\ IF req[t].code = "nonstr"
           THEN /\ chat_sessions' = [chat_sessions EXCEPT ![req[t].sid] = appended]
                /\ Return(t, 500, <<>>)
           ELSE /\ chat_sessions' = [chat_sessions EXCEPT ![req[t].sid] = stored]
                /\ req' = [req EXCEPT ![t].prompt = PromptOf(stored),
                                      ![t].before = stored.outbox]
                /\ Goto(t, "chat_invoke")
        /\ UNCHANGED <<nreq, delivered, popLog, llmLog, mongo>>

InitSessions == Start(MaxRequests)

NextSessions ==
    \E t \in Threads :
        \/ \E sid \in SessionIds, b \in ChatBodies :
               GetSessionLookup(t, sid, b[1], b[2])
        \/ GetSessionStore(t)
        \/ ChatAfterSession(t)
        \/ ChatLLMReturn(t, <<"Hello">>)
        \/ ChatLLMFail(t)
        \/ ChatAppend(t)

SpecSessions == InitSessions /\ [][NextSessions]_vars

\* C24: a session record is created on the first reference to an id that has
\* none, with help_level 0, struggle_score 0, no message, an empty queue and
\* outbox, no question and processing False; once created it is never removed
\* from the table (its id keeps its record, and the record the messages it
\* has), and a step for one session id leaves the records of all other
\* sessions as they were.
C24_CreatedOnceAndKept ==
    [][/\ \A s \in DOMAIN Table :
              /\ s \in DOMAIN Table'
              /\ Len(Table'[s].messages) >= Len(Table[s].messages)
              /\ SubSeq(Table'[s].messages, 1, Len(Table[s].messages))
                     = Table[s].messages
       /\ \A s \in DOMAIN Table' \ DOMAIN Table : Table'[s] = NewSession
       /\ \A t \in Threads : pc'[t] # pc[t] =>
              \A s \in DOMAIN Table \ {req[t].sid, req'[t].sid} :
                  Table'[s] = Table[s]
      ]_vars

----------------------------------------------------------------------------
(* Claims about the stored question and the priorities *)

\* The step of thread t that runs the handler's statement storing the
\* question, and the request it serves.
QuestionStep(t) == pc'[t] # pc[t] /\ pc[t] \in {"idle", "chat_begin"}

Supplied(t) == IF pc[t] = "idle" THEN req'[t] ELSE req[t]

StoredQuestion(sessions, s) ==
    IF s \in DOMAIN sessions THEN sessions[s].question_json ELSE None

\* C25: the stored questionJson of a session changes only when a request for
\* the session supplies a questionJson that is not empty and differs from the
\* stored one, and then it becomes the supplied one; a request with no
\* questionJson, or with the stored one, leaves it as it is, and nothing ever
\* clears it.
C25_QuestionReplacedOnlyByNew ==
    [][\A s \in DOMAIN Table' :
          LET old == StoredQuestion(Table, s)
              new == StoredQuestion(Table', s)
          IN  new # old =>
                  \E t \in Threads :
                      /\ QuestionStep(t)
                      /\ Supplied(t).sid = s
                      /\ Supplied(t).qj = new
                      /\ new # None
      ]_vars

\* The threaded server under enqueue requests of every type, the unknown one
\* included, each with a code that is a string.
TypedBodies == {<<ty, "str", None>> : ty \in EventTypes}

NextTyped ==
    \E t \in Threads : Enqueue(t, OneSession, TypedBodies, {<<"Hello">>})

SpecTyped == Init /\ [][NextTyped]_vars

KnownTypes == {"SLM", "CODE_RUN", "USER_SPEECH"}

\* C26: every event, queued or dequeued since, carries the priority the
\* table gives its type (SLM 1, CODE_RUN 2, USER_SPEECH 3, any other type 0),
\* at every moment after its enqueue; and an event of unknown type is
\* dequeued for processing only when no SLM, CODE_RUN or USER_SPEECH event is
\* pending.
C26_UnknownTypeLast ==
    /\ \A e \in Queued \cup Dequeued :
           e.priority = (CASE e.type = "SLM" -> 1
                           [] e.type = "CODE_RUN" -> 2
                           [] e.type = "USER_SPEECH" -> 3
                           [] OTHER -> 0)
    /\ \A d \in SeqSet(popLog) :
           d.event.type \notin KnownTypes =>
               \A e \in SeqSet(d.pending) : e.type \notin KnownTypes

----------------------------------------------------------------------------
(* Claims about concurrent requests for one session *)

MemoryOf(sess) == <<sess.help_level, sess.struggle_score>>

\* C27: help_level and struggle_score of a session are written only by a
\* step of the request that holds the session's processing flag (the active
\* drain); no other request for the session writes them, a /chat request
\* running beside a drain included.
C27_MemoryWrittenByDrainOnly ==
    [][\A s \in Sessions :
          MemoryOf(chat_sessions'[s]) # MemoryOf(chat_sessions[s]) =>
              \E t \in Draining(s) : pc'[t] # pc[t]
      ]_vars

\* The step of thread t that returns the success response of an enqueue
\* request.
EnqueueReturns(t) ==
    /\ req[t].op = "enqueue"
    /\ pc[t] # "idle"
    /\ pc'[t] = "idle"
    /\ http'.status = 200

Answered(sessions, s, id) ==
    \E i \in 1..Len(sessions[s].messages) : sessions[s].messages[i].event = id

LateThreads == 1..(NumThreads + 1)

Drains == {1, 2}

InitLate ==
    LET body == <<"SLM", None, None>>
    IN  /\ chat_sessions =
               ("s1" :> [StoreQuestion(NewSession, body[3]) EXCEPT
                            !.queue = <<NewEvent(body[1], body[2], 1),
                                        NewEvent(body[1], body[2], 2)>>,
                            !.processing = TRUE])
        /\ pc = [t \in LateThreads |->
                    IF t \in Drains THEN "dequeue" ELSE "idle"]
        /\ req = [t \in LateThreads |->
                     IF t \in Drains
                     THEN [IdleReq EXCEPT !.op = "enqueue", !.sid = "s1",
                                          !.type = body[1], !.code = body[2],
                                          !.qj = body[3], !.enqueued = t]
                     ELSE IdleReq]
        /\ http = NoResponse
        /\ clock = Cardinality(Drains)
        /\ nreq = MaxEnqueues - Cardinality(Drains)
        /\ delivered = [s \in SessionIds |-> <<>>]
        /\ last = Ended(None, None, <<>>, <<>>)
        /\ popLog = <<>>
        /\ llmLog = <<>>
        /\ mongo = NoMongo

NextLate ==
    \E t \in LateThreads : Enqueue(t, OneSession, QueueBodies, {<<"Hello">>})

SpecLate == InitLate /\ [][NextLate]_vars

AllEvents == Queued \cup Dequeued

\* The message appended for the event with this id, in a set of one (none
\* yet: the empty set).
MessagesFor(id) ==
    UNION {{m \in SeqSet(chat_sessions[s].messages) : m.event = id}
           : s \in Sessions}

\* Event h was enqueued after dequeue i of the log and before the message
\* for the event of that dequeue was appended: while its LLM call was on.
ArrivedDuringCall(h, i) ==
    /\ h.id > popLog[i].event.id
    /\ h \notin SeqSet(popLog[i].pending)
    /\ \A k \in 1..i : popLog[k].event # h
    /\ \A m \in MessagesFor(popLog[i].event.id) : h.id < m.id
    /\ \A e \in SeqSet(popLog[i].pending) : e.priority < h.priority
    /\ \A e \in AllEvents :
           (e.id < h.id /\ \A k \in 1..i : popLog[k].event # e) =>
               e.priority < h.priority

\* C29: an event enqueued while the drain is inside an LLM call, with a
\* priority strictly higher than every event pending then, is the next event
\* dequeued: no dequeue that finds it pending takes an event of its priority
\* or of a lower one.
C29_LateHigherPriorityNext ==
    \A i \in 1..Len(popLog) : \A j \in (i + 1)..Len(popLog) :
        \A h \in SeqSet(popLog[j].pending) :
            ArrivedDuringCall(h, i) => popLog[j].event.priority > h.priority

\* The threaded server under enqueue requests and polls of one session.
NextPoll ==
    \E t \in Threads :
        \/ Enqueue(t, OneSession, {<<"SLM", None, None>>}, {<<"Hello">>})
        \/ Poll(t, OneSession)

SpecPoll == InitEnq /\ [][NextPoll]_vars

\* C30: when polls of a session race, the pending messages are split between
\* them: no message is in the results of two polls (the results, one after
\* the other, hold every message at most once).
C30_RacingPollsSplit ==
    \A s \in SessionIds :
        \A i, k \in 1..Len(delivered[s]) :
            delivered[s][i].id = delivered[s][k].id => i = k

----------------------------------------------------------------------------
(* The memory extractor on texts with lines outside the snapshot section *)

\* The lines that may stand before the marker or after the next heading:
\* none, a help-tier line, a struggle-score line, or both.
OutsideLines ==
    { <<>>,
      <<"- ", "Help tier", COLON, BLANK, "Direction", NL>>,
      <<"- ", "Struggle score", COLON, BLANK, "9", "9", NL>>,
      <<"- ", "Help tier", COLON, BLANK, "Direction", NL,
        "- ", "Struggle score", COLON, BLANK, "9", "9", NL>> }

\* The sections tried: marker, bulleted lines with their colon
SectionInputs ==
    {in \in SnapshotInputs :
        in.head = "marker" /\ in.bullet /\ in.colon /\ ~in.digit}

\* The text: lines, the section, and lines behind its closing heading
SectionText(pre, in, post) ==
    pre \o SnapshotText(in) \o (IF in.next THEN <<NL>> \o post ELSE <<>>)

InitSection ==
    \E pre \in OutsideLines, in \in SectionInputs, post \in OutsideLines,
       mem \in Memories :
        LET user == Message("user", <<"user message">>, 1, 0)
            sess == [NewSession EXCEPT !.messages = <<user>>,
                                       !.help_level = mem[1],
                                       !.struggle_score = mem[2]]
        IN  /\ in.next \/ post = <<>>
            /\ chat_sessions = ("s1" :> sess)
            /\ pc = [t \in Threads |-> IF t = 1 THEN "chat_invoke" ELSE "idle"]
            /\ req = [t \in Threads |->
                         IF t = 1
                         THEN [IdleReq EXCEPT !.op = "chat", !.sid = "s1",
                                              !.code = "str",
                                              !.prompt = PromptOf(sess),
                                              !.text = SectionText(pre, in, post),
                                              !.input =
                                                  [pre |-> pre, post |-> post] @@ in]
                         ELSE IdleReq]
            /\ http = NoResponse
            /\ clock = 1
            /\ nreq = 0
            /\ delivered = [s \in SessionIds |-> <<>>]
            /\ last = Ended(None, None, <<>>, <<>>)
            /\ popLog = <<>>
            /\ llmLog = <<>>
            /\ mongo = NoMongo

SpecSection == InitSection /\ [][NextExtract]_vars

\* What the section alone gives, applied to the memory the prompt showed.
SectionAlone(t) ==
    LET parsed == _extract_memory_from_snapshot_section(SnapshotText(req[t].input))
    IN  << IF parsed[1] # Absent THEN parsed[1] ELSE MemoryBefore(t)[1],
           IF parsed[2] # Absent THEN parsed[2] ELSE MemoryBefore(t)[2] >>

\* C31: the extractor reads only the lines between the first
\* '### Interview Snapshot' and the next '### ' heading (or the end of the
\* text): a help-tier or struggle-score line before the marker or after that
\* heading has no effect, the result and the memory being what the section
\* alone gives (absent, and the memory kept, for a field the section lacks).
C31_OnlyTheSection ==
    \A t \in Threads :
        pc[t] = "chat_append" =>
            /\ Parsed(t) = _extract_memory_from_snapshot_section(SnapshotText(req[t].input))
            /\ MemoryAfter(t) = SectionAlone(t)
            /\ req[t].input.help = NoLine => Parsed(t)[1] = Absent
            /\ req[t].input.score = NoLine => Parsed(t)[2] = Absent

\* A text with a help-tier line before the marker and a struggle-score line
\* after the next heading, its section holding neither, has been parsed.
C31_Witness ==
    \E t \in Threads :
        /\ pc[t] = "chat_append"
        /\ req[t].input.pre = <<"- ", "Help tier", COLON, BLANK, "Direction", NL>>
        /\ req[t].input.post = <<"- ", "Struggle score", COLON, BLANK, "9", "9", NL>>
        /\ req[t].input.help = NoLine
        /\ req[t].input.score = NoLine
        /\ MemoryBefore(t) = <<2, 57>>

----------------------------------------------------------------------------
(* Claims about the messages and the flag of a session *)

IsPrefix(a, b) == Len(a) <= Len(b) /\ SubSeq(b, 1, Len(a)) = a

\* The last n elements of q, all of q when it has fewer
LastN(q, n) == SubSeq(q, IF Len(q) > n THEN Len(q) - n + 1 ELSE 1, Len(q))

\* C32: the messages of a session are append-only: every step leaves the
\* messages the session had, in their order, at the front of the messages
\* it has (so their number never decreases); and every prompt built holds
\* the last 10 messages of the session only, the record keeping them all.
C32_MessagesAppendOnly ==
    [][/\ \A s \in DOMAIN Table :
              /\ s \in DOMAIN Table'
              /\ IsPrefix(Table[s].messages, Table'[s].messages)
       /\ \A t \in Threads :
              (pc'[t] \in {"invoke", "chat_invoke"} /\ pc[t] # pc'[t]) =>
                  req'[t].prompt.history =
                      LastN(MsgIds(chat_sessions'[req'[t].sid].messages), 10)
      ]_vars

----------------------------------------------------------------------------
(* The content shown in a rendered line-history entry *)

MaxContentLen == 102

\* The lengths of the contents drawn: none, short, and around the limit
ContentLengths == {0, 1, 99, 100, 101, MaxContentLen}

\* A content of n characters, the i-th being the last digit of i
ContentOf(n) == [i \in 1..n |-> ToString(i % 10)]

\* The contents of the edits of the one line of a history, in the order
\* recorded
DisplayInputs ==
    UNION {[1..k -> ContentLengths] : k \in 1..MaxEntries}

DisplayHistory(lens) ==
    <<<<1, [kind |-> "list",
            items |-> [i \in 1..Len(lens) |->
                          [timestamp |-> i, content |-> ContentOf(lens[i]),
                           metrics |-> <<>>]]]>>>>

\* One request of each backend is about to build its prompt for a session
\* whose Node document holds one line with edits of the contents drawn
InitDisplay ==
    \E lens \in DisplayInputs :
        /\ chat_sessions = <<>>
        /\ pc = [t \in Threads |-> IF t = 1 THEN "gen_context"
                                   ELSE IF t = 2 THEN "chat_context" ELSE "idle"]
        /\ req = [t \in Threads |->
                     IF t = 1 THEN ContextReq("generate", "s1")
                     ELSE IF t = 2 THEN ContextReq("chat", "s1") ELSE IdleReq]
        /\ http = NoResponse
        /\ clock = 0
        /\ nreq = 0
        /\ delivered = [s \in SessionIds |-> <<>>]
        /\ last = Ended(None, None, <<>>, <<>>)
        /\ popLog = <<>>
        /\ llmLog = <<>>
        /\ mongo = [snapshots |-> <<>>,
                    sessions |-> ("s1" :> [lineHistory |-> DisplayHistory(lens)])]

SpecDisplay == InitDisplay /\ [][NextCompact]_vars

\* The positions of the token tok in the string str, in order
Positions(str, tok) == SelectSeq([i \in 1..Len(str) |-> i], LAMBDA i : str[i] = tok)

\* What the rendered line str shows between the quotes of its j-th entry
ShownContent(str, j) ==
    LET open == Positions(str, "] '")[j]
        close == CHOOSE i \in (open + 1)..Len(str) :
                     /\ str[i] = "'"
                     /\ \A h \in (open + 1)..(i - 1) : str[h] # "'"
    IN  SubSeq(str, open + 1, close - 1)

\* The threads that have rendered the line history, and the edits shown
Rendered == {t \in {1, 2} : pc[t] \in {"gen_prompt", "chat_prompt"}}
ShownEdits == LastOf(mongo.sessions["s1"].lineHistory[1][2].items, 3)

\* C33: in a rendered line-history entry a content of more than 100
\* characters is shown as its first 100 characters followed by the
\* ellipsis, and a content of at most 100 characters is shown as it is.
C33_ContentShownUpTo100 ==
    \A t \in Rendered : \A j \in 1..Len(ShownEdits) :
        LET content == ShownEdits[j].content
            shown == ShownContent(req[t].sections[2], j)
        IN  /\ Len(content) > 100 =>
                  /\ Len(shown) = 101
                  /\ SubSeq(shown, 1, 100) = SubSeq(content, 1, 100)
                  /\ shown[101] = ELLIPSIS
            /\ Len(content) <= 100 => shown = content

\* Both backends have rendered a line whose edits have contents of 100,
\* 101 and 102 characters
C33_Witness ==
    /\ Rendered = {1, 2}
    /\ Len(ShownEdits) = 3
    /\ Len(ShownEdits[1].content) = 100
    /\ Len(ShownEdits[2].content) = 101
    /\ Len(ShownEdits[3].content) = MaxContentLen

----------------------------------------------------------------------------
(* Claims about the queue and the flag of a session at rest *)

\* The threads executing a request for the session s
Executing(s) == {t \in Threads : pc[t] # "idle" /\ req[t].sid = s}

\* C34: whenever no request is executing for a session, the queue of the
\* session is empty and its processing flag is False.
C34_IdleSessionHasNothingQueued ==
    \A s \in Sessions :
        Executing(s) = {} =>
            /\ chat_sessions[s].queue = <<>>
            /\ ~chat_sessions[s].processing

\* The threads inside _process_queue for s after it set the flag: in the
\* loop, or leaving it through the finally clause
InDrain(s) == {t \in Threads : pc[t] \in DrainLabels \cup {"finally"} /\ req[t].sid = s}

\* C35: the processing flag of a session is True only while some thread is
\* between setting the flag and the finally clause of _process_queue; and
\* every exit of _process_queue that set the flag, whether the queue was
\* empty or an exception left the loop, leaves the flag False.
C35_FlagOnlyWhileDraining ==
    [][/\ \A s \in DOMAIN chat_sessions' :
              chat_sessions'[s].processing =>
                  \E t \in Threads :
                      /\ pc'[t] \in DrainLabels \cup {"finally"}
                      /\ req'[t].sid = s
       /\ \A t \in Threads :
              (pc[t] = "finally" /\ pc'[t] = "idle") =>
                  ~chat_sessions'[req[t].sid].processing
      ]_vars

\* Prompt building has raised in the drain of the last request (the code of
\* its event is no string), the request was answered 500, and the flag of
\* its session is False with no drain running
C35_Witness ==
    /\ http.op = "enqueue"
    /\ popLog # <<>>
    /\ popLog[Len(popLog)].event.code = "nonstr"
    /\ http.status = 500
    /\ http.sid \in Sessions
    /\ ~chat_sessions[http.sid].processing
    /\ InDrain(http.sid) = {}

----------------------------------------------------------------------------
(* Conservation of events and messages, one operation at a time *)

\* The events in the queues and the events dequeued so far, counted
Pending == Cardinality(Queued) + Len(popLog)

\* C36: in a sequential run of enqueues, drains and polls, the events queued
\* and the events dequeued grow by one at every enqueue and at no other
\* step (the number enqueued is the number queued plus the number
\* dequeued); between operations every dequeued event has exactly one
\* assistant message in messages and one in the outbox (or returned by a
\* poll); and every message in an outbox is in messages.
C36_Conservation ==
    /\ [][Pending' = Pending + (IF \E t \in Threads : EnqueueStep(t) THEN 1 ELSE 0)]_vars
    /\ [](Quiescent => \A e \in Dequeued : Answers(e) = 1 /\ InOutbox(e) = 1)
    /\ [](\A s \in Sessions :
              SeqSet(chat_sessions[s].outbox) \subseteq SeqSet(chat_sessions[s].messages))

----------------------------------------------------------------------------
(* The order of the steps of a drain *)

\* A drain beside other requests: the state the threaded server is in when
\* thread 1 has enqueued event 1 and set the flag, and a second enqueue
\* request has added event 2 and returned because the flag was set. Thread 1
\* is about to drain both events; the requests still to come are handled
\* by the free threads.
InitBeside ==
    /\ chat_sessions =
           ("s1" :> [NewSession EXCEPT
                        !.queue = <<NewEvent("SLM", None, 1),
                                    NewEvent("USER_SPEECH", "str", 2)>>,
                        !.processing = TRUE])
    /\ pc = [t \in Threads |-> IF t = 1 THEN "dequeue" ELSE "idle"]
    /\ req = [t \in Threads |->
                 IF t = 1
                 THEN [IdleReq EXCEPT !.op = "enqueue", !.sid = "s1",
                                      !.type = "SLM", !.enqueued = 1]
                 ELSE IdleReq]
    /\ http = Respond("enqueue", "s1", 200, <<>>)
    /\ clock = 2
    /\ nreq = MaxRequests - 1
    /\ delivered = [s \in SessionIds |-> <<>>]
    /\ last = Ended("enqueue", "s1", <<>>, <<>>)
    /\ popLog = <<>>
    /\ llmLog = <<>>
    /\ mongo = NoMongo

NextBeside ==
    \E t \in Threads :
        Enqueue(t, OneSession, QueueBodies, Responses) \/ Chat(t, OneSession)

SpecBeside == InitBeside /\ [][NextBeside]_vars

\* The step of thread t that builds the prompt of an event after the drain
\* of t has answered an earlier one
NextPromptStep(t) ==
    /\ pc[t] = "pop"
    /\ pc'[t] = "invoke"
    /\ req[t].appended # <<>>

\* C37: within a drain, the prompt built for the next event carries the
\* help_level and struggle_score that the response to the event before it
\* left (the parsed values, clamped, and for a field not parsed the value
\* its own prompt carried), and its history holds the assistant message of
\* the event before it.
C37_PromptAfterUpdate ==
    [][\A t \in Threads : NextPromptStep(t) =>
          LET before == [help_level |-> req[t].prompt.help_level,
                         struggle_score |-> req[t].prompt.struggle_score]
              after == ApplyMemory(before, Parsed(t))
              answer == req[t].appended[Len(req[t].appended)]
          IN  /\ req'[t].prompt.help_level = after.help_level
              /\ req'[t].prompt.struggle_score = after.struggle_score
              /\ answer.event = req[t].event.id
              /\ answer.id \in SeqSet(req'[t].prompt.history)
      ]_vars

----------------------------------------------------------------------------
(* One drain of a queue that receives no further event *)

MaxPending == 3

\* The queues of k events, enqueued in the order of their ids by calls of
\* _enqueue_event with bodies of EnqueueBodies
PendingQueues ==
    UNION {{[i \in 1..k |-> NewEvent(b[i][1], b[i][2], i)] : b \in [1..k -> EnqueueBodies]}
           : k \in 0..MaxPending}

\* _process_queue has been called for a session with the events of queue
\* pending and no drain running; nothing else runs
InitDrain ==
    \E queue \in PendingQueues :
        /\ chat_sessions = ("s1" :> [NewSession EXCEPT !.queue = queue])
        /\ pc = [t \in Threads |-> IF t = 1 THEN "check_processing" ELSE "idle"]
        /\ req = [t \in Threads |->
                     IF t = 1 THEN [IdleReq EXCEPT !.op = "_process_queue", !.sid = "s1"]
                     ELSE IdleReq]
        /\ http = NoResponse
        /\ clock = Len(queue)
        /\ nreq = 0
        /\ delivered = [s \in SessionIds |-> <<>>]
        /\ last = Ended(None, None, <<>>, <<>>)
        /\ popLog = <<>>
        /\ llmLog = <<>>
        /\ mongo = NoMongo

NextDrain ==
    \/ ProcessCheck(1)
    \/ ProcessSet(1)
    \/ DequeueCheck(1)
    \/ DequeueSort(1)
    \/ DequeuePop(1)
    \/ \E text \in Responses : LLMReturn(1, text)
    \/ \E e \in ExceptionTexts : LLMFail(1, e)
    \/ _append_assistant_message(1)
    \/ ProcessFinally(1)

SpecDrain == InitDrain /\ [][NextDrain]_vars

\* The drain has ended
DrainEnded == pc[1] = "idle"

\* C38: a drain of a session with k pending events, no further event being
\* enqueued and every LLM call returning or raising, ends after exactly k
\* iterations (one message appended for each of the k events) with the queue
\* empty and the processing flag False.
C38_DrainRunsKIterations ==
    DrainEnded =>
        /\ chat_sessions["s1"].queue = <<>>
        /\ ~chat_sessions["s1"].processing
        /\ Len(last.appended) = Len(popLog) + Len(chat_sessions["s1"].queue)
        /\ Len(llmLog) = Len(last.appended)

----------------------------------------------------------------------------
(* POST /chat beside POST /events/enqueue, with _get_session statement by  *)
(* statement: enqueue_event holds the dict it got up to _enqueue_event,    *)
(* and _process_queue looks the session id up again.                       *)

\* enqueue_event up to sess = app.chat_sessions.get(session_id); if not sess
EnqueueLookup(t, sid, ty, code, qj) ==
    /\ Free(t)
    /\ nreq > 0
    /\ nreq' = nreq - 1
    /\ req' = [req EXCEPT ![t] =
                  [IdleReq EXCEPT !.op = "enqueue", !.sid = sid,
                                  !.session_id = sid, !.type = ty,
                                  !.code = code, !.qj = qj]]
    /\ Goto(t, IF sid \in DOMAIN chat_sessions THEN "enq_begin" ELSE "enq_store")
    /\ UNCHANGED <<chat_sessions, clock, delivered, popLog, llmLog, mongo>>

\* sess = {...}; app.chat_sessions[session_id] = sess; return sess, in
\* enqueue_event: as GetSessionStore
EnqueueSessionStore(t) ==
    LET sid == req[t].sid
    IN  /\ pc[t] = "enq_store"
        /\ IF sid \in DOMAIN chat_sessions
           THEN /\ chat_sessions' =
                       (sid :> NewSession) @@ (NextLost :> chat_sessions[sid])
                           @@ chat_sessions
                /\ req' = [u \in Threads |->
                              IF u # t /\ pc[u] \in HoldingLabels /\ req[u].sid = sid
                              THEN [req[u] EXCEPT !.sid = NextLost]
                              ELSE req[u]]
           ELSE /\ chat_sessions' = (sid :> NewSession) @@ chat_sessions
                /\ UNCHANGED req
        /\ Goto(t, "enq_begin")
        /\ UNCHANGED <<clock, nreq, delivered, popLog, llmLog, mongo>>

\* enqueue_event, lines 740-742: the question stored in the dict held
EnqueueAfterSession(t) ==
    /\ pc[t] = "enq_begin"
    /\ chat_sessions' = [chat_sessions EXCEPT ![req[t].sid] =
                            StoreQuestion(@, req[t].qj)]
    /\ req' = [req EXCEPT ![t].before = Sess(t).outbox]
    /\ Goto(t, "enq_append")
    /\ UNCHANGED <<clock, nreq, delivered, popLog, llmLog, mongo>>

\* _enqueue_event(session, data) on the dict held
EnqueueAppend(t) ==
    /\ pc[t] = "enq_append"
    /\ chat_sessions' = [chat_sessions EXCEPT ![req[t].sid].queue =
                            Append(@, NewEvent(req[t].type, req[t].code, clock + 1))]
    /\ clock' = clock + 1
    /\ req' = [req EXCEPT ![t].enqueued = clock + 1]
    /\ Goto(t, "proc_lookup")
    /\ UNCHANGED <<nreq, delivered, popLog, llmLog, mongo>>

\* _process_queue(session_id): session = _get_session(session_id) finds the
\* dict the table holds for the id by now
ProcessLookup(t) ==
    /\ pc[t] = "proc_lookup"
    /\ req' = [req EXCEPT ![t].sid = req[t].session_id]
    /\ Goto(t, "check_processing")
    /\ UNCHANGED <<chat_sessions, clock, nreq, delivered, popLog, llmLog, mongo>>

InitCreate == Start(MaxRequests)

NextCreate ==
    \E t \in Threads :
        \/ \E b \in ChatBodies : GetSessionLookup(t, "s1", b[1], b[2])
        \/ GetSessionStore(t)
        \/ ChatAfterSession(t)
        \/ ChatLLMReturn(t, <<"Hello">>)
        \/ ChatLLMFail(t)
        \/ ChatAppend(t)
        \/ \E b \in QueueBodies : EnqueueLookup(t, "s1", b[1], b[2], b[3])
        \/ EnqueueSessionStore(t)
        \/ EnqueueAfterSession(t)
        \/ EnqueueAppend(t)
        \/ ProcessLookup(t)
        \/ ProcessCheck(t)
        \/ ProcessSet(t)
        \/ DequeueCheck(t)
        \/ DequeueSort(t)
        \/ DequeuePop(t)
        \/ LLMReturn(t, <<"Hello">>)
        \/ \E e \in ExceptionTexts : LLMFail(t, e)
        \/ _append_assistant_message(t)
        \/ ProcessFinally(t)

SpecCreate == InitCreate /\ [][NextCreate]_vars

\* The event pipeline of a session: its queue, its outbox and its flag
Pipeline(sess) == <<sess.queue, sess.outbox, sess.processing>>

\* A step of the /chat request of thread t
ChatStep(t) ==
    /\ pc'[t] # pc[t]
    /\ req[t].op = "chat" \/ req'[t].op = "chat"

\* C39: a /chat request never touches the event pipeline: every step of it
\* leaves the queue, the outbox and the processing flag of every session of
\* the table as they were (a session it creates has them empty and False),
\* it goes on whatever the flag is, and the messages it appends are in no
\* outbox and in no poll's result.
C39_ChatLeavesPipeline ==
    /\ [][\A t \in Threads : ChatStep(t) =>
             /\ \A s \in DOMAIN Table : Pipeline(Table'[s]) = Pipeline(Table[s])
             /\ \A s \in DOMAIN Table' \ DOMAIN Table :
                    Pipeline(Table'[s]) = <<<<>>, <<>>, FALSE>>
         ]_vars
    /\ [](\A s \in DOMAIN Table :
              \A m \in SeqSet(delivered[s] \o Table[s].outbox) : m.event # 0)

----------------------------------------------------------------------------
(* A client's calls of POST /llm/generate in sequence: the full code       *)
(* first, then after each edit the patch from the text it sent last to     *)
(* its text now, all for one session or all without a session id.          *)
(* last holds the client's side: the session id it names, the text of its  *)
(* call before (before) and the text of its last call (appended).          *)

MaxChain == 3

MetricsDicts ==
    { <<>>, << <<"activeMs", "4800">> >>,
      << <<"undoCount", "1">>, <<"activeMs", "9600">> >> }

\* mode full with the code and its metrics
ChainFull(t, code, metrics) ==
    /\ pc[t] = "idle"
    /\ nreq = MaxChain
    /\ code # <<>>
    /\ nreq' = nreq - 1
    /\ req' = [req EXCEPT ![t] =
                  [GenerateReq(last.sid, "full", code, <<>>) EXCEPT !.metrics = metrics]]
    /\ pc' = [pc EXCEPT ![t] = "gen_llm"]
    /\ http' = NoResponse
    /\ last' = Ended("generate", last.sid, <<>>, code)
    /\ UNCHANGED <<chat_sessions, clock, delivered, popLog, llmLog, mongo>>

\* mode patch with the patch of a diff from the text sent last to the text
\* now, and the metrics that changed
ChainPatch(t, code, metrics_patch) ==
    /\ pc[t] = "idle"
    /\ nreq > 0
    /\ nreq < MaxChain
    /\ code # last.appended
    /\ nreq' = nreq - 1
    /\ \E diffs \in DiffsFromTo(last.appended, code) :
           req' = [req EXCEPT ![t] =
                      [GenerateReq(last.sid, "patch", <<>>,
                                   patch_toText(patch_make(last.appended, code, diffs)))
                          EXCEPT !.metrics = metrics_patch,
                                 !.diffed = <<last.appended, code>>]]
    /\ pc' = [pc EXCEPT ![t] = "gen_last"]
    /\ http' = NoResponse
    /\ last' = Ended("generate", last.sid, last.appended, code)
    /\ UNCHANGED <<chat_sessions, clock, delivered, popLog, llmLog, mongo>>

InitChain ==
    \E sid \in GenerateSessions :
        /\ chat_sessions = <<>>
        /\ pc = [t \in Threads |-> "idle"]
        /\ req = [t \in Threads |-> IdleReq]
        /\ http = NoResponse
        /\ clock = 0
        /\ nreq = MaxChain
        /\ delivered = [s \in SessionIds |-> <<>>]
        /\ last = Ended(None, sid, <<>>, <<>>)
        /\ popLog = <<>>
        /\ llmLog = <<>>
        /\ mongo = NoMongo

NextChain ==
    \/ \E code \in Codes, metrics \in MetricsDicts : ChainFull(1, code, metrics)
    \/ \E code \in Codes, metrics_patch \in MetricsDicts :
           ChainPatch(1, code, metrics_patch)
    \/ GenerateLast(1)
    \/ GeneratePatch(1)
    \/ GenerateLLMReturn(1)
    \/ GenerateLLMFail(1)

SpecChain == InitChain /\ [][NextChain]_vars

\* The snapshots stored for the session id sid
SnapshotsOf(store, sid) ==
    IF sid \in DOMAIN store.snapshots THEN store.snapshots[sid] ELSE <<>>

\* last.get("code") if last else "": the code of the last snapshot stored
\* for sid, empty when there is none
LastCode(sid) ==
    LET stored == LastSnapshot(sid)
    IN  IF stored.code = None THEN <<>> ELSE stored.code

\* The step of thread t that ends a generate call in patch mode
PatchCallEnds(t) ==
    /\ pc[t] \in {"gen_last", "gen_patch", "gen_llm"}
    /\ pc'[t] = "idle"
    /\ req[t].mode = "patch"

\* C40: every generate call in patch mode with a session id stores a new
\* snapshot that holds the patch applied to the code of the session's last
\* snapshot and the last snapshot's metrics overridden key by key by the
\* metrics patch; so after the calls full(A), patch(A to B), patch(B to C)
\* the code of the last snapshot is the text of the client's last call; and
\* a call in patch mode without a session id uses the empty code.
C40_PatchChain ==
    /\ [][\A t \in Threads : (PatchCallEnds(t) /\ req[t].sid # None) =>
             SnapshotsOf(mongo', req[t].sid) =
                 Append(SnapshotsOf(mongo, req[t].sid),
                        [code |-> _apply_patch(LastCode(req[t].sid), req[t].patch).code,
                         metrics |-> MergeMetrics(MetricsOf(LastSnapshot(req[t].sid)),
                                                  req[t].metrics)])
         ]_vars
    /\ []((\A t \in Threads : pc[t] = "idle") /\ last.op = "generate"
              /\ last.sid # None
          => LastCode(last.sid) = last.appended)
    /\ [](\A t \in Threads :
              (pc[t] = "gen_llm" /\ req[t].mode = "patch" /\ req[t].sid = None)
                  => req[t].code = <<>>)

====
